---------------------------- MODULE Spec2Model ----------------------------
(***************************************************************************)
(* A model of the M-Pesa statement pipeline of oomh/sape:                  *)
(*   src/data/cleaner.py            clean_data, split_details, split_type  *)
(*   src/categorization/categorizer.py   TransactionCategorizer            *)
(*   src/analysis/analyzer.py       Analyzer.analyze_category              *)
(*   app.py                         session cache, custom categories,      *)
(*                                  filter_categorized_data                *)
(*                                                                         *)
(* Text is modelled as a sequence of one-character strings, so that        *)
(* lower(), title(), strip(), split() and the regular expressions of the   *)
(* source are computed character by character.  Amounts are integers (the  *)
(* source uses floats; no claim depends on rounding).                      *)
(***************************************************************************)
EXTENDS Integers, Sequences, FiniteSets, TLC

VARIABLES
    details_text,         \* split_details: the argument
    split_result,         \* what split_details, then split_type, returned
    field_call,           \* _matches_field_pattern: the arguments
    field_result,         \* _matches_field_pattern: the returned value
    pattern_call,         \* _matches_pattern: the arguments
    pattern_result,       \* _matches_pattern: the returned value
    raw_df,               \* clean_data: the table handed in by the loader
    clean_result,         \* clean_data: the outcome (rows, or the exception raised)
    category_definitions, \* TransactionCategorizer.category_definitions
    categories,           \* TransactionCategorizer.categories
    df_cleaned,           \* the frame handed to categorize_transactions
    matched,              \* what categorize_transaction returned for each row of the last run
    cat_returns,          \* the mappings categorize_transactions returned, in call order
    data,                 \* Analyzer.data
    analysis,             \* analyze_category: the arguments and the AnalysisResult
    entity_call,          \* _process_entity: the record and the category
    entity_result,        \* _process_entity: the returned record
    session_state,        \* app.py: st.session_state
    faux_available,       \* app.py: whether .streamlit/faux_data.csv exists
    rendered,             \* app.py: what the last script run showed
    filter_call,          \* filter_categorized_data: the arguments
    filter_result         \* filter_categorized_data: the returned mapping

splitVars == <<details_text, split_result>>
matchVars == <<field_call, field_result, pattern_call, pattern_result>>
cleanVars == <<raw_df, clean_result>>
catVars   == <<category_definitions, categories, df_cleaned, matched, cat_returns>>
anVars    == <<data, analysis>>
entVars   == <<entity_call, entity_result>>
sessVars  == <<session_state, faux_available, rendered>>
filtVars  == <<filter_call, filter_result>>
laterVars == <<entVars, sessVars, filtVars>>
vars == <<splitVars, matchVars, cleanVars, catVars, anVars, laterVars>>

\* the value of a result variable before the operation has run
Pending == [status |-> "pending"]

-----------------------------------------------------------------------------
(* Python str primitives over sequences of characters *)

Uppers == <<"A","B","C","D","E","F","G","H","I","J","K","L","M",
            "N","O","P","Q","R","S","T","U","V","W","X","Y","Z">>
Lowers == <<"a","b","c","d","e","f","g","h","i","j","k","l","m",
            "n","o","p","q","r","s","t","u","v","w","x","y","z">>
Digits == {"0","1","2","3","4","5","6","7","8","9"}
Whitespace == {" ", "\n", "\t"}

IsUpper(c) == \E i \in 1..26 : Uppers[i] = c
IsLower(c) == \E i \in 1..26 : Lowers[i] = c
IsCased(c) == IsUpper(c) \/ IsLower(c)
isdigit(c) == c \in Digits
IsSpace(c) == c \in Whitespace

LowerChar(c) == IF IsUpper(c) THEN Lowers[CHOOSE i \in 1..26 : Uppers[i] = c] ELSE c
UpperChar(c) == IF IsLower(c) THEN Uppers[CHOOSE i \in 1..26 : Lowers[i] = c] ELSE c

\* str.lower leaving the letter case as it is
keep_case(s) == s

\* str.lower()
lower(s) == [i \in 1..Len(s) |-> LowerChar(s[i])]

\* str.title(): a cased character is upper-cased unless it follows a cased one
title(s) == [i \in 1..Len(s) |->
               IF i > 1 /\ IsCased(s[i-1]) THEN LowerChar(s[i]) ELSE UpperChar(s[i])]

\* str.strip()
RECURSIVE lstrip(_)
lstrip(s) == IF s # <<>> /\ IsSpace(Head(s)) THEN lstrip(Tail(s)) ELSE s
RECURSIVE rstrip(_)
rstrip(s) == IF s # <<>> /\ IsSpace(s[Len(s)]) THEN rstrip(SubSeq(s, 1, Len(s)-1)) ELSE s
strip(s) == rstrip(lstrip(s))

\* str.startswith(p)
startswith(s, p) == Len(p) <= Len(s) /\ SubSeq(s, 1, Len(p)) = p

\* p in s
contains(s, p) == \E i \in 0..(Len(s) - Len(p)) : SubSeq(s, i+1, i+Len(p)) = p

\* str.replace(old, "") for a one-character old
RECURSIVE remove_char(_, _)
remove_char(s, c) ==
    IF s = <<>> THEN <<>>
    ELSE IF Head(s) = c THEN remove_char(Tail(s), c)
    ELSE <<Head(s)>> \o remove_char(Tail(s), c)

\* str.split(" "): every single space separates, empty words are kept
RECURSIVE split_space(_)
split_space(s) ==
    IF \A i \in 1..Len(s) : s[i] # " " THEN <<s>>
    ELSE LET p == CHOOSE i \in 1..Len(s) : s[i] = " " /\ \A j \in 1..(i-1) : s[j] # " "
         IN  <<SubSeq(s, 1, p-1)>> \o split_space(SubSeq(s, p+1, Len(s)))

\* " ".join(words)
RECURSIVE join_space(_)
join_space(words) ==
    IF words = <<>> THEN <<>>
    ELSE IF Len(words) = 1 THEN words[1]
    ELSE words[1] \o <<" ">> \o join_space(Tail(words))

\* re.sub(r"\s+", " ", s)
RECURSIVE collapse_whitespace(_)
collapse_whitespace(s) ==
    IF s = <<>> THEN <<>>
    ELSE IF IsSpace(Head(s))
         THEN <<" ">> \o collapse_whitespace(lstrip(s))
         ELSE <<Head(s)>> \o collapse_whitespace(Tail(s))

-----------------------------------------------------------------------------
(* cleaner.py: split_details and split_type *)

\* what re.search returns when nothing matches (a match has two groups)
NoMatch == <<>>

\* DETAILS_PATTERN = (.*?)(?<!\S)(?: *)-(?: *)\s(?=\S)(.*) matched with group 1
\* taking the first i characters: the hyphen token starts right after them.
\* The value is the index at which group 2 starts, or 0 when there is no match.
DetailsMatchAt(s, i) ==
    IF ~(i = 0 \/ IsSpace(s[i])) THEN 0
    ELSE LET S == {<<a, b>> \in (0..Len(s)) \X (0..Len(s)) :
                      /\ i + a + b + 3 <= Len(s)
                      /\ \A k \in (i+1)..(i+a) : s[k] = " "
                      /\ s[i+a+1] = "-"
                      /\ \A k \in (i+a+2)..(i+a+1+b) : s[k] = " "
                      /\ IsSpace(s[i+a+b+2])
                      /\ ~IsSpace(s[i+a+b+3])}
         IN  IF S = {} THEN 0
             ELSE LET ab == CHOOSE x \in S : TRUE IN i + ab[1] + ab[2] + 3

\* DETAILS_PATTERN.search(s): the lazy group 1 makes the leftmost hyphen token win
DETAILS_PATTERN(s) ==
    LET I == {i \in 0..Len(s) : DetailsMatchAt(s, i) # 0}
    IN  IF I = {} THEN NoMatch
        ELSE LET i == CHOOSE x \in I : \A y \in I : x <= y
             IN  <<SubSeq(s, 1, i), SubSeq(s, DetailsMatchAt(s, i), Len(s))>>

\* split_details without the strip of the two groups
split_details_unstripped(text) ==
    LET match == DETAILS_PATTERN(text)
    IN  IF match # NoMatch THEN <<match[1], match[2]>>
        ELSE <<text, text>>

split_details(text) ==
    LET match == DETAILS_PATTERN(text)
    IN  IF match # NoMatch THEN <<strip(match[1]), strip(match[2])>>
        ELSE <<text, text>>

TypeClassWords == 4

\* split_type with the description starting one word late
split_type_skipping(transaction_type) ==
    LET words == split_space(transaction_type)
        n == Len(words)
    IN  <<join_space(SubSeq(words, 1, IF n < TypeClassWords THEN n ELSE TypeClassWords)),
          join_space(SubSeq(words, TypeClassWords + 2, n))>>

split_type(transaction_type) ==
    LET words == split_space(transaction_type)
        n == Len(words)
    IN  <<join_space(SubSeq(words, 1, IF n < TypeClassWords THEN n ELSE TypeClassWords)),
          join_space(SubSeq(words, TypeClassWords + 1, n))>>

-----------------------------------------------------------------------------
(* cleaner.py: clean_data.  A frame is [is_none, columns, rows]: the column  *)
(* names in order and, per row, one cell per column.  A cell is a text or    *)
(* NaN (a missing value).                                                    *)

NaN == <<"NaN">>
NaT == <<>>
isnull(cell) == cell = NaN

\* Series.astype(str): a missing value becomes the text 'nan'
astype_str(cell) == IF isnull(cell) THEN <<"n", "a", "n">> ELSE cell

receiptno == <<"r","e","c","e","i","p","t","n","o">>
completiontime == <<"c","o","m","p","l","e","t","i","o","n","t","i","m","e">>
details == <<"d","e","t","a","i","l","s">>
paidin == <<"p","a","i","d","i","n">>
withdrawn == <<"w","i","t","h","d","r","a","w","n">>

\* s with the characters at the positions in P upper-cased
Cap(s, P) == [i \in 1..Len(s) |-> IF i \in P THEN UpperChar(s[i]) ELSE s[i]]

\* "Receiptno.", "ReceiptNo", "CompletionTime", "Details", "PaidIn", "Withdrawn"
EXPECTED_COLUMNS ==
    << Cap(receiptno, {1}) \o <<".">>, Cap(receiptno, {1, 8}), Cap(completiontime, {1, 11}),
       Cap(details, {1}), Cap(paidin, {1, 5}), Cap(withdrawn, {1}) >>

SeqRange(q) == {q[i] : i \in 1..Len(q)}

\* the members of idx (indices into q, ascending) selected from q
RECURSIVE Pick(_, _)
Pick(q, idx) == IF idx = <<>> THEN <<>> ELSE <<q[Head(idx)]>> \o Pick(q, Tail(idx))

\* the indices i of 1..n with keep[i], ascending
RECURSIVE Indices(_, _)
Indices(n, keep) ==
    IF n = 0 THEN <<>>
    ELSE Indices(n - 1, keep) \o (IF keep[n] THEN <<n>> ELSE <<>>)

HasCol(cols, name) == name \in SeqRange(cols)
ColIndex(cols, name) == CHOOSE i \in 1..Len(cols) : cols[i] = name

\* df[names]: the named columns, in the order of names
SelectCols(df, names) ==
    [is_none |-> FALSE,
     columns |-> names,
     rows |-> [r \in 1..Len(df.rows) |->
                 [k \in 1..Len(names) |-> df.rows[r][ColIndex(df.columns, names[k])]]]]

\* expected.lower().replace(" ", "") for expected in EXPECTED_COLUMNS
expected_lower == [e \in 1..Len(EXPECTED_COLUMNS) |-> remove_char(lower(EXPECTED_COLUMNS[e]), " ")]

\* has_expected_cols with the membership test written as a substring test
\* between the two names
has_expected_cols_substring(df) ==
    \E e \in 1..Len(EXPECTED_COLUMNS) :
        \E c \in 1..Len(df.columns) :
            contains(expected_lower[e], strip(df.columns[c]))

\* any(expected.lower().replace(" ", "") in [str(col).strip() for col in df.columns])
has_expected_cols(df) ==
    \E e \in 1..Len(EXPECTED_COLUMNS) :
        \E c \in 1..Len(df.columns) :
            expected_lower[e] = strip(df.columns[c])

\* list(set([col.lower().replace(".", "") for col in EXPECTED_COLUMNS]))
expected_cols_lower ==
    {remove_char(lower(EXPECTED_COLUMNS[e]), ".") : e \in 1..Len(EXPECTED_COLUMNS)}

\* df.loc[:, ~df.columns.duplicated(keep="last")]
drop_duplicate_columns(df) ==
    LET n == Len(df.columns)
        keep == [i \in 1..n |-> \A j \in (i+1)..n : df.columns[j] # df.columns[i]]
        idx == Indices(n, keep)
    IN  [is_none |-> FALSE,
         columns |-> Pick(df.columns, idx),
         rows |-> [r \in 1..Len(df.rows) |-> Pick(df.rows[r], idx)]]

\* df.rename(columns={old: new})
rename(df, old, new) ==
    [df EXCEPT !.columns = [i \in 1..Len(df.columns) |->
                              IF df.columns[i] = old THEN new ELSE df.columns[i]]]

DigitChars == <<"0","1","2","3","4","5","6","7","8","9">>
DigitValue(c) == (CHOOSE d \in 1..10 : DigitChars[d] = c) - 1

RECURSIVE ParseDigits(_)
ParseDigits(s) ==
    IF s = <<>> THEN 0
    ELSE ParseDigits(SubSeq(s, 1, Len(s) - 1)) * 10 + DigitValue(s[Len(s)])

\* pd.to_numeric(text, errors="coerce") on whole numbers: <<n>>, or NaT-like <<>> for NaN
to_numeric(s) ==
    LET signed == s # <<>> /\ s[1] \in {"-", "+"}
        body == IF signed THEN Tail(s) ELSE s
    IN  IF body # <<>> /\ \A i \in 1..Len(body) : isdigit(body[i])
        THEN <<(IF signed /\ s[1] = "-" THEN 0 - 1 ELSE 1) * ParseDigits(body)>>
        ELSE <<>>

\* .astype(str).str.replace(",", "").replace(["", "-", "N/A", "nan"], "0")
amount_text(cell) ==
    LET t == remove_char(astype_str(cell), ",")
    IN  IF t \in {<<>>, <<"-">>, <<"N", "/", "A">>, <<"n", "a", "n">>} THEN <<"0">> ELSE t

abs(n) == IF n < 0 THEN 0 - n ELSE n
fillna0(v) == IF v = <<>> THEN 0 ELSE v[1]

\* cleaner.py:214-224  pd.to_numeric(...).abs().fillna(0)
clean_withdrawn(cell) ==
    LET v == to_numeric(amount_text(cell))
    IN  fillna0(IF v = <<>> THEN v ELSE <<abs(v[1])>>)

\* cleaner.py:227-233  pd.to_numeric(...).fillna(0)
clean_paidin(cell) == fillna0(to_numeric(amount_text(cell)))

\* pd.to_datetime(cell, errors="coerce").  A statement timestamp is written
\* 'd hh' here (day of the statement, hour of the day); the value is the hour
\* count <<d * 24 + hh>>, and anything else parses to NaT.
to_datetime(cell) ==
    IF /\ Len(cell) = 4
       /\ isdigit(cell[1]) /\ cell[2] = " " /\ isdigit(cell[3]) /\ isdigit(cell[4])
       /\ ParseDigits(SubSeq(cell, 3, 4)) < 24
    THEN <<DigitValue(cell[1]) * 24 + ParseDigits(SubSeq(cell, 3, 4))>>
    ELSE NaT

\* cleaner.py:237-240  whitespace collapsed, then title-cased
clean_details(cell) == title(collapse_whitespace(astype_str(cell)))

Raise(exception) == [status |-> exception, rows |-> <<>>]

\* cleaner.py:139-242.  The result is the exception raised or
\* [status |-> "ok", columns, rows], rows being records over the kept columns.
\* cleaner.py:198-240: the kept columns with their values converted
convert_types(df, present_cols) ==
    [status |-> "ok",
     columns |-> present_cols,
     rows |-> [r \in 1..Len(df.rows) |->
                 [receiptno |-> df.rows[r][ColIndex(df.columns, receiptno)],
                  completiontime |->
                      to_datetime(df.rows[r][ColIndex(df.columns, completiontime)]),
                  withdrawn |-> clean_withdrawn(df.rows[r][ColIndex(df.columns, withdrawn)]),
                  paidin |-> clean_paidin(df.rows[r][ColIndex(df.columns, paidin)]),
                  details |-> IF details \in present_cols
                              THEN clean_details(df.rows[r][ColIndex(df.columns, details)])
                              ELSE <<>>]]]

\* cleaner.py:172-198: the expected columns that are present are kept
keep_expected(df) ==
    IF {c \in expected_cols_lower : HasCol(df.columns, c)} = {}
    THEN Raise("DataCleaningError")
    ELSE IF ~HasCol(df.columns, receiptno) THEN Raise("KeyError")
    ELSE IF ~HasCol(df.columns, withdrawn) THEN Raise("KeyError")
    ELSE IF ~HasCol(df.columns, paidin) THEN Raise("KeyError")
    ELSE convert_types(df, {c \in expected_cols_lower : HasCol(df.columns, c)})

\* cleaner.py:165-170
rename_columns(df) ==
    rename(rename(df, receiptno \o <<".">>, receiptno),
           <<"w","i","t","h","d","r","a","w","\n","n">>, withdrawn)

\* cleaner.py:162: df[~pd.isnull(df["completiontime"])]
drop_null_timestamps(df) ==
    [df EXCEPT !.rows =
        Pick(df.rows,
             Indices(Len(df.rows),
                     [r \in 1..Len(df.rows) |->
                         ~isnull(df.rows[r][ColIndex(df.columns, completiontime)])]))]

\* cleaner.py:160: df.columns.str.lower().str.strip()
standardize_columns(df) ==
    [df EXCEPT !.columns = [i \in 1..Len(df.columns) |-> strip(lower(df.columns[i]))]]

\* cleaner.py:139-242
_clean_column_values(df0) ==
    IF ~HasCol(standardize_columns(df0).columns, completiontime) THEN Raise("KeyError")
    ELSE keep_expected(rename_columns(drop_null_timestamps(standardize_columns(df0))))

\* cleaner.py:245-274
_extract_transaction_info(rows) ==
    [r \in 1..Len(rows) |->
        LET te == split_details(rows[r].details)
            cd == split_type(te[1])
        IN  [receiptno |-> rows[r].receiptno,
             completiontime |-> rows[r].completiontime,
             details |-> rows[r].details,
             paidin |-> rows[r].paidin,
             withdrawn |-> rows[r].withdrawn,
             type |-> te[1], entity |-> te[2],
             type_class |-> cd[1], type_desc |-> cd[2]]]

\* cleaner.py:39-131
clean_data(df) ==
    IF df.is_none \/ df.columns = <<>> \/ df.rows = <<>> THEN Raise("DataCleaningError")
    ELSE IF ~has_expected_cols(df) THEN Raise("DataCleaningError")
    ELSE
    LET df_clean == _clean_column_values(drop_duplicate_columns(df))
    IN  IF df_clean.status # "ok" THEN df_clean
        \* df_clean['completiontime'].min().strftime(...): min() skips NaT and
        \* is NaT when nothing else is left; NaT.strftime raises ValueError
        ELSE IF \A r \in 1..Len(df_clean.rows) : df_clean.rows[r].completiontime = NaT
             THEN Raise("ValueError")
        ELSE IF details \notin df_clean.columns THEN Raise("KeyError")
        ELSE [status |-> "ok", rows |-> _extract_transaction_info(df_clean.rows)]

-----------------------------------------------------------------------------
(* categorizer.py: pattern matching.  A match-spec is a function from the    *)
(* operator keys it carries to their values; the value of "equals" records   *)
(* whether the YAML gave a single text or a list.  A patterns mapping is the *)
(* sequence of its items [field, spec] in dict order.                        *)

Has(field_patterns, key) == key \in DOMAIN field_patterns

\* any(pattern in field_value for pattern in contains_list)
any_contains(field_value, list) == \E i \in 1..Len(list) : contains(field_value, list[i])

\* any(field_value.startswith(pattern) for pattern in startswith_list)
any_startswith(field_value, list) == \E i \in 1..Len(list) : startswith(field_value, list[i])

\* _matches_field_pattern with the contains check returning its own result
\* instead of falling through to the other operators
_matches_field_pattern_first(field_value, field_patterns) ==
    IF Has(field_patterns, "contains")
    THEN any_contains(field_value, field_patterns["contains"])
    ELSE IF Has(field_patterns, "equals")
    THEN ~field_patterns["equals"].is_list /\ field_value = field_patterns["equals"].value
    ELSE IF Has(field_patterns, "startswith")
    THEN any_startswith(field_value, field_patterns["startswith"])
    ELSE IF Has(field_patterns, "startswith_numeric")
    THEN field_patterns["startswith_numeric"] /\ field_value # <<>> /\ isdigit(field_value[1])
    ELSE IF Has(field_patterns, "not_starts_with")
    THEN ~startswith(field_value, field_patterns["not_starts_with"])
    ELSE TRUE

\* categorizer.py:260-312
_matches_field_pattern(field_value, field_patterns) ==
    IF /\ Has(field_patterns, "contains")
       /\ any_contains(field_value, field_patterns["contains"])
    THEN TRUE
    \* field_value == field_patterns["equals"]: a str never equals a list
    ELSE IF /\ Has(field_patterns, "equals")
            /\ ~field_patterns["equals"].is_list
            /\ field_value = field_patterns["equals"].value
    THEN TRUE
    ELSE IF /\ Has(field_patterns, "startswith")
            /\ any_startswith(field_value, field_patterns["startswith"])
    THEN TRUE
    ELSE IF /\ Has(field_patterns, "startswith_numeric")
            /\ field_patterns["startswith_numeric"]
            /\ field_value # <<>>
            /\ isdigit(field_value[1])
    THEN TRUE
    ELSE IF /\ Has(field_patterns, "not_starts_with")
            /\ ~startswith(field_value, field_patterns["not_starts_with"])
    THEN TRUE
    \* if field_patterns: (a non-empty dict)
    ELSE IF DOMAIN field_patterns # {}
    THEN /\ ~Has(field_patterns, "contains")
         /\ ~Has(field_patterns, "equals")
         /\ ~Has(field_patterns, "startswith")
         /\ ~Has(field_patterns, "startswith_numeric")
    ELSE TRUE

FieldNames == {"details", "type_desc", "type_class", "entity"}

\* fields[field_name] of _matches_pattern
FieldValue(details_lc, type_desc_lc, type_class_lc, entity_text, field_name) ==
    CASE field_name = "details" -> details_lc
      [] field_name = "type_desc" -> type_desc_lc
      [] field_name = "type_class" -> type_class_lc
      [] field_name = "entity" -> lower(entity_text)

\* _matches_pattern returning True as soon as one field matches
RECURSIVE _matches_pattern_any(_, _, _, _, _)
_matches_pattern_any(details_lc, type_desc_lc, type_class_lc, entity_text, patterns) ==
    IF patterns = <<>> THEN FALSE
    ELSE IF Head(patterns).field \notin FieldNames
    THEN _matches_pattern_any(details_lc, type_desc_lc, type_class_lc, entity_text,
                              Tail(patterns))
    ELSE IF _matches_field_pattern(
                FieldValue(details_lc, type_desc_lc, type_class_lc, entity_text,
                           Head(patterns).field),
                Head(patterns).spec)
    THEN TRUE
    ELSE _matches_pattern_any(details_lc, type_desc_lc, type_class_lc, entity_text,
                              Tail(patterns))

\* categorizer.py:223-258: the loop over patterns.items()
RECURSIVE _matches_pattern(_, _, _, _, _)
_matches_pattern(details_lc, type_desc_lc, type_class_lc, entity_text, patterns) ==
    IF patterns = <<>> THEN TRUE
    ELSE IF Head(patterns).field \notin FieldNames
    THEN _matches_pattern(details_lc, type_desc_lc, type_class_lc, entity_text,
                          Tail(patterns))
    ELSE IF ~_matches_field_pattern(
                FieldValue(details_lc, type_desc_lc, type_class_lc, entity_text,
                           Head(patterns).field),
                Head(patterns).spec)
    THEN FALSE
    ELSE _matches_pattern(details_lc, type_desc_lc, type_class_lc, entity_text,
                          Tail(patterns))

-----------------------------------------------------------------------------
(* categorizer.py: entity processing.  The entity of a cleaned row holds no   *)
(* line break (clean_details collapsed every whitespace run to one space),    *)
(* so '.' of the patterns stands for any character and '$' for the end.       *)

W_via == <<"v", "i", "a">>
W_charge == <<"c", "h", "a", "r", "g", "e">>
W_is == <<"i", "s">>
W_Acc == <<"A", "c", "c", ".">>
W_nan == <<"n", "a", "n">>

\* the first position at or after i that holds no whitespace (Len(s) + 1 if none)
SkipSpace(s, i) ==
    IF \E j \in i..Len(s) : ~IsSpace(s[j])
    THEN CHOOSE j \in i..Len(s) : ~IsSpace(s[j]) /\ \A k \in i..(j - 1) : IsSpace(s[k])
    ELSE Len(s) + 1

\* word stands at position i of s
IsAt(s, i, word) ==
    /\ i >= 1 /\ i + Len(word) - 1 <= Len(s)
    /\ SubSeq(s, i, i + Len(word) - 1) = word

\* word stands at position i of s and whitespace follows it
IsAtThenSpace(s, i, word) ==
    /\ IsAt(s, i, word)
    /\ i + Len(word) <= Len(s) /\ IsSpace(s[i + Len(word)])

\* str.split(" ", 1)
split_once(s) ==
    IF \E i \in 1..Len(s) : s[i] = " "
    THEN LET i == CHOOSE i \in 1..Len(s) : s[i] = " " /\ \A k \in 1..(i - 1) : s[k] # " "
         IN <<SubSeq(s, 1, i - 1), SubSeq(s, i + 1, Len(s))>>
    ELSE <<s>>

\* categorizer.py:63: re.compile(r"\*+").search(entity)
masked_phone_pattern(entity) == \E i \in 1..Len(entity) : entity[i] = "*"

\* categorizer.py:363-374
process_masked_phone(entity) ==
    IF entity = <<>> THEN <<entity, <<>>>>
    ELSE IF masked_phone_pattern(entity)
    THEN LET parts == split_once(entity)
         IN IF Len(parts) > 1
            THEN <<title(parts[2]), title(parts[1])>>
            ELSE <<title(parts[1]), <<>>>>
    ELSE <<title(entity), <<>>>>

\* the alternative \s+(?:via).*?(?:is)\s+(.*) tried after k characters of
\* group 1, letter case ignored: NoMatch, or <<group 2>>
ViaAt(s, k) ==
    LET j == SkipSpace(s, k + 1)
        IsHere(p) == IsAtThenSpace(lower(s), p, W_is)
    IN IF /\ j > k + 1
          /\ IsAt(lower(s), j, W_via)
          /\ \E p \in (j + 3)..Len(s) : IsHere(p)
       THEN LET p == CHOOSE p \in (j + 3)..Len(s) :
                        IsHere(p) /\ \A r \in (j + 3)..(p - 1) : ~IsHere(r)
            IN <<SubSeq(s, SkipSpace(s, p + 2), Len(s))>>
       ELSE NoMatch

\* categorizer.py:65-67: (.*?)(?:\s+(?:via).*?(?:is)\s+(.*)|$), IGNORECASE;
\* group 2 is NoMatch when the '$' alternative matched
business_payment_pattern(s) ==
    LET k == CHOOSE k \in 0..Len(s) :
                /\ ViaAt(s, k) # NoMatch \/ k = Len(s)
                /\ \A r \in 0..(k - 1) : ViaAt(s, r) = NoMatch
    IN [group1 |-> SubSeq(s, 1, k), group2 |-> ViaAt(s, k)]

\* the alternative \s+Acc\.\s+(.*) tried after k characters of group 1
AccAt(s, k) ==
    LET j == SkipSpace(s, k + 1)
    IN IF j > k + 1 /\ IsAtThenSpace(s, j, W_Acc)
       THEN <<SubSeq(s, SkipSpace(s, j + 4), Len(s))>>
       ELSE NoMatch

\* categorizer.py:64: (.*?)(?:\s+Acc\.\s+(.*)|$)
paybill_pattern(s) ==
    LET k == CHOOSE k \in 0..Len(s) :
                /\ AccAt(s, k) # NoMatch \/ k = Len(s)
                /\ \A r \in 0..(k - 1) : AccAt(s, r) = NoMatch
    IN [group1 |-> SubSeq(s, 1, k), group2 |-> AccAt(s, k)]

\* match.group(2).strip() if match.group(2) else ""
GroupText(group) == IF group = NoMatch THEN <<>> ELSE strip(group[1])

\* categorizer.py:376-387
process_business_and_account(entity) ==
    IF entity = <<>> THEN <<entity, <<>>>>
    ELSE LET match == business_payment_pattern(entity)
         IN <<strip(match.group1), GroupText(match.group2)>>

\* categorizer.py:389-400
extract_paybill_details(entity) ==
    IF entity = <<>> THEN <<entity, <<>>>>
    ELSE LET match == paybill_pattern(entity)
         IN <<strip(match.group1), GroupText(match.group2)>>

money_transfer_cats ==
    {"Send Money", "Received (Individuals)", "Received (Business)", "Customer Payment",
     "Business Transfer (SME)", "Business Transfer (Customer)"}

\* entity and (entity[0].isdigit() or "*" in entity)
is_phone_number(entity) ==
    entity # <<>> /\ (isdigit(entity[1]) \/ \E i \in 1..Len(entity) : entity[i] = "*")

\* categorizer.py:314-361; account_no is <<>> while the record has no such key
\* and <<text>> once it is set
_process_entity(transaction_data, category) ==
    LET entity == transaction_data.entity
    IN IF category \in money_transfer_cats
       THEN LET pair == IF is_phone_number(entity)
                        THEN process_masked_phone(entity)
                        ELSE process_business_and_account(entity)
            IN [transaction_data EXCEPT !.processed_entity = pair[1],
                                        !.account_no = <<pair[2]>>]
       ELSE IF category = "PayBillPayments"
       THEN LET pair == extract_paybill_details(entity)
            IN [transaction_data EXCEPT !.processed_entity = pair[1],
                                        !.account_no = <<pair[2]>>]
       ELSE IF category \in {"airtime_bundle", "Pochi"} /\ is_phone_number(entity)
       THEN [transaction_data EXCEPT
                !.processed_entity = process_masked_phone(entity)[1]]
       ELSE transaction_data

-----------------------------------------------------------------------------
(* categorizer.py: TransactionCategorizer.  A definition is [name, patterns]; *)
(* self.categories maps a category name to the list of its records.           *)

None == <<>>

\* base_transaction_data with 'charge' looked for in the fields as they are
base_transaction_data_as_written(row) ==
    [receiptno |-> row.receiptno,
     completiontime |-> row.completiontime,
     details |-> row.details,
     paidin |-> row.paidin,
     withdrawn |-> row.withdrawn,
     entity |-> row.entity,
     type_class |-> row.type_class,
     type_desc |-> row.type_desc,
     processed_entity |-> row.entity,
     is_charge |-> contains(row.type_desc, W_charge) \/ contains(row.details, W_charge),
     category |-> <<>>,
     subcategory |-> <<>>,
     account_no |-> <<>>]

\* categorizer.py:141-154
base_transaction_data(row) ==
    [receiptno |-> row.receiptno,
     completiontime |-> row.completiontime,
     details |-> row.details,
     paidin |-> row.paidin,
     withdrawn |-> row.withdrawn,
     entity |-> row.entity,
     type_class |-> row.type_class,
     type_desc |-> row.type_desc,
     processed_entity |-> row.entity,
     is_charge |-> contains(lower(row.type_desc), W_charge)
                   \/ contains(lower(row.details), W_charge),
     category |-> None,
     subcategory |-> None,
     account_no |-> <<>>]

\* the loop over self.category_definitions working on one dict for all matches
RECURSIVE shared_record(_, _, _)
shared_record(rec, row, definitions) ==
    IF definitions = <<>> THEN <<>>
    ELSE LET cat_def == Head(definitions)
         IN IF _matches_pattern(lower(row.details), lower(row.type_desc),
                                lower(row.type_class), row.entity, cat_def.patterns)
            THEN LET next == _process_entity([rec EXCEPT !.category = cat_def.name],
                                             cat_def.name)
                     rest == shared_record(next, row, Tail(definitions))
                 IN  <<IF rest = <<>> THEN next ELSE rest[1]>> \o rest
            ELSE shared_record(rec, row, Tail(definitions))

\* matched_categories without base_transaction_data.copy(): every entry of the
\* list is the one dict, as the last match left it
matched_categories_shared(row, definitions) ==
    shared_record(base_transaction_data(row), row, definitions)

\* categorizer.py:163-180: the loop over self.category_definitions
RECURSIVE matched_categories(_, _)
matched_categories(row, definitions) ==
    IF definitions = <<>> THEN <<>>
    ELSE LET cat_def == Head(definitions)
         IN (IF _matches_pattern(lower(row.details), lower(row.type_desc),
                                 lower(row.type_class), row.entity, cat_def.patterns)
             THEN <<_process_entity(
                       [base_transaction_data(row) EXCEPT !.category = cat_def.name],
                       cat_def.name)>>
             ELSE <<>>)
            \o matched_categories(row, Tail(definitions))

\* categorize_transaction returning after the first definition that matches
categorize_transaction_first_match(row, definitions) ==
    IF lower(row.details) = W_nan \/ lower(row.details) = <<>>
    THEN <<[base_transaction_data(row) EXCEPT !.category = "NoDetails"]>>
    ELSE IF matched_categories(row, definitions) = <<>>
    THEN <<[base_transaction_data(row) EXCEPT !.category = "uncategorized"]>>
    ELSE <<Head(matched_categories(row, definitions))>>

\* categorizer.py:122-191
categorize_transaction(row, definitions) ==
    IF lower(row.details) = W_nan \/ lower(row.details) = <<>>
    THEN <<[base_transaction_data(row) EXCEPT !.category = "NoDetails"]>>
    ELSE LET found == matched_categories(row, definitions)
         IN  IF found = <<>>
             THEN <<[base_transaction_data(row) EXCEPT !.category = "uncategorized"]>>
             ELSE found

\* the session's definitions put after the file's
custom_categories_appended(custom_categories, file_definitions) ==
    file_definitions \o custom_categories

\* categorizer.py:46-54: self.category_definitions after construction
load_category_definitions(custom_categories, file_definitions) ==
    IF custom_categories # <<>>
    THEN custom_categories \o file_definitions
    ELSE file_definitions

\* categorizer.py:56-60: self.categories after construction
empty_categories(definitions) ==
    [name \in {definitions[i].name : i \in 1..Len(definitions)}
              \cup {"NoDetails", "uncategorized"} |-> <<>>]

\* categorizer.py:92-95: the records of one transaction appended to the lists
RECURSIVE append_matched(_, _)
append_matched(lists, records) ==
    IF records = <<>> THEN lists
    ELSE LET category == Head(records).category
         IN append_matched(
                IF category \in DOMAIN lists
                THEN [lists EXCEPT ![category] = Append(@, Head(records))]
                ELSE lists,
                Tail(records))

\* categorizer.py:88-95: the pass over df.iterrows(), given what
\* categorize_transaction returned for each row: the records appended in row order
RECURSIVE append_rows(_, _)
append_rows(lists, results) ==
    IF results = <<>> THEN lists
    ELSE append_rows(append_matched(lists, Head(results)), Tail(results))

-----------------------------------------------------------------------------
(* analyzer.py: Analyzer.  A DataFrame is [columns, rows]: the set of its     *)
(* column names and its rows, each a record over the columns.                 *)

\* pd.DataFrame()
EmptyFrame == [columns |-> {}, rows |-> <<>>]

\* analyzer.py:396-405
_empty_result ==
    [figure |-> None, total_amount |-> 0, total_charges |-> 0, transaction_count |-> 0,
     aggregated_frame |-> <<>>, raw_df |-> EmptyFrame]

\* self.data.get falling back on a frame of the mapping
get_any(frames, category_name) ==
    IF category_name \in DOMAIN frames THEN frames[category_name]
    ELSE frames[CHOOSE name \in DOMAIN frames : TRUE]

\* analyzer.py:344: self.data.get(category_name, pd.DataFrame())
get(frames, category_name) ==
    IF category_name \in DOMAIN frames THEN frames[category_name] ELSE EmptyFrame

\* sort_values in ascending order
sort_values_ascending(groups) ==
    {frame \in [1..Cardinality(groups) -> groups] :
        /\ \A i, j \in 1..Cardinality(groups) : i # j => frame[i] # frame[j]
        /\ \A i, j \in 1..Cardinality(groups) : i < j => frame[i].amount <= frame[j].amount}

\* analyzer.py:351 with the flag ignored
amount_col_withdrawn(is_money_in) == "withdrawn"

\* analyzer.py:351
amount_col(is_money_in) == IF is_money_in THEN "paidin" ELSE "withdrawn"

\* df[df["is_charge"]] (flag TRUE) and df[~df["is_charge"]] (flag FALSE)
charge_rows(rows, flag) ==
    Pick(rows, Indices(Len(rows), [r \in 1..Len(rows) |-> rows[r].is_charge = flag]))

\* a sum that keeps the value of the last row instead of adding it
sum_last_row(rows, column) ==
    IF rows = <<>> THEN 0 ELSE rows[Len(rows)][column]

\* Series.sum()
RECURSIVE sum(_, _)
sum(rows, column) ==
    IF rows = <<>> THEN 0 ELSE Head(rows)[column] + sum(Tail(rows), column)

\* Series.count(): the values that are not missing
count(rows, column) == Cardinality({r \in 1..Len(rows) : ~isnull(rows[r][column])})

\* Series.nunique(): the distinct values that are not missing
nunique(rows, column) ==
    Cardinality({rows[r][column] : r \in 1..Len(rows)} \ {NaN})

\* the rows of one group of groupby("processed_entity")
group_rows(rows, key) ==
    Pick(rows, Indices(Len(rows), [r \in 1..Len(rows) |-> rows[r].processed_entity = key]))

\* groupby("processed_entity").agg(count=("receiptno", "count"),
\*                                 amount=(amount_col, "sum")): one row per entity
agg(rows, column) ==
    {[processed_entity |-> key,
      count |-> count(group_rows(rows, key), "receiptno"),
      amount |-> sum(group_rows(rows, key), column)] :
        key \in {rows[r].processed_entity : r \in 1..Len(rows)}}

\* sort_values(by="amount", ascending=False).reset_index(): a frame of the
\* groups in non-increasing order of amount; the default sort is not stable,
\* so groups of equal amount may come in either order
sort_values(groups) ==
    {frame \in [1..Cardinality(groups) -> groups] :
        /\ \A i, j \in 1..Cardinality(groups) : i # j => frame[i] # frame[j]
        /\ \A i, j \in 1..Cardinality(groups) : i < j => frame[i].amount >= frame[j].amount}

\* visualizations.py:18-75: no chart for an empty frame
create_horizontal_bar_chart(frame, chart_title) ==
    IF frame = <<>> THEN None ELSE <<chart_title>>

\* analyzer.py:329-390: the results analyze_category may return
analyze_category(frames, category_name, is_money_in) ==
    IF get(frames, category_name).rows = <<>> THEN {_empty_result}
    ELSE LET df == get(frames, category_name)
             has_charges == "is_charge" \in df.columns
             transactions == IF has_charges THEN charge_rows(df.rows, FALSE) ELSE df.rows
         IN {[figure |-> create_horizontal_bar_chart(aggregated, category_name),
              total_amount |-> sum(transactions, amount_col(is_money_in)),
              total_charges |-> IF has_charges
                                THEN sum(charge_rows(df.rows, TRUE), amount_col(is_money_in))
                                ELSE 0,
              transaction_count |-> nunique(transactions, "receiptno"),
              aggregated_frame |-> aggregated,
              raw_df |-> df] :
               aggregated \in sort_values(agg(transactions, amount_col(is_money_in)))}

-----------------------------------------------------------------------------
(* Values of the variables a specification does not use *)

SplitIdle == details_text = <<>> /\ split_result = Pending
MatchIdle ==
    /\ field_call = Pending /\ field_result = Pending
    /\ pattern_call = Pending /\ pattern_result = Pending
CleanIdle == raw_df = Pending /\ clean_result = Pending
CatIdle ==
    /\ category_definitions = <<>> /\ categories = <<>> /\ df_cleaned = <<>>
    /\ matched = <<>> /\ cat_returns = <<>>
AnIdle == data = <<>> /\ analysis = Pending
EntIdle == entity_call = Pending /\ entity_result = Pending
SessIdle == session_state = Pending /\ faux_available = FALSE /\ rendered = Pending
FiltIdle == filter_call = Pending /\ filter_result = Pending
LaterIdle == EntIdle /\ SessIdle /\ FiltIdle

-----------------------------------------------------------------------------
(* SpecSplit: split_details and split_type applied to a details text, as     *)
(* _extract_transaction_info applies them to every row                       *)

MaxDetailsTokens == 5

\* the pieces details texts are put together from
DetailsTokens == {<<"A">>, <<"b">>, <<" ">>, <<"-">>, <<" ", "-", " ">>}

RECURSIVE Concat(_)
Concat(pieces) == IF pieces = <<>> THEN <<>> ELSE Head(pieces) \o Concat(Tail(pieces))

DetailsTexts ==
    {Concat(p) : p \in UNION {[1..n -> DetailsTokens] : n \in 0..MaxDetailsTokens}}

MaxTypeWords == 5

Sep == <<" ", "-", " ">>
Words == {<<"A">>, <<"b">>, <<"A", "b">>}

\* words joined by single spaces: details without a separator, whose type is
\* the whole text
RECURSIVE JoinWords(_)
JoinWords(ws) ==
    IF ws = <<>> THEN <<>>
    ELSE IF Len(ws) = 1 THEN ws[1]
    ELSE ws[1] \o <<" ">> \o JoinWords(Tail(ws))

TypeTexts == {JoinWords(ws) : ws \in UNION {[1..n -> Words] : n \in 1..MaxTypeWords}}

InitSplit ==
    /\ details_text \in DetailsTexts \cup TypeTexts
    /\ split_result = Pending
    /\ MatchIdle /\ CleanIdle /\ CatIdle /\ AnIdle /\ LaterIdle

\* cleaner.py:267  df[["type", "entity"]] = df["details"].apply(split_details)
SplitDetails ==
    /\ split_result.status = "pending"
    /\ split_result' = [status |-> "split",
                        type |-> split_details(details_text)[1],
                        entity |-> split_details(details_text)[2]]
    /\ UNCHANGED <<details_text, matchVars, cleanVars, catVars, anVars, laterVars>>

\* cleaner.py:270  df[["type_class", "type_desc"]] = df["type"].apply(split_type)
SplitType ==
    /\ split_result.status = "split"
    /\ split_result' = [status |-> "done",
                        type |-> split_result.type,
                        entity |-> split_result.entity,
                        type_class |-> split_type(split_result.type)[1],
                        type_desc |-> split_type(split_result.type)[2]]
    /\ UNCHANGED <<details_text, matchVars, cleanVars, catVars, anVars, laterVars>>

NextSplit == SplitDetails \/ SplitType

SpecSplit == InitSplit /\ [][NextSplit]_vars

\* 'x - y - z' with x, y, z plain words: two whitespace-bounded hyphen separators
TwoSeparatorTexts == {x \o Sep \o y \o Sep \o z : x \in Words, y \in Words, z \in Words}

\* the position of the last ' - ' of s
LastSep(s) ==
    CHOOSE i \in 1..(Len(s) - 2) :
        /\ SubSeq(s, i, i+2) = Sep
        /\ \A j \in (i+1)..(Len(s) - 2) : SubSeq(s, j, j+2) # Sep

\* C10: for details with two or more ' - ' separators, split_details returns as
\* type the text before the LAST separator and as entity the text after it.
C10_SplitsAtLastSeparator ==
    (split_result.status # "pending" /\ details_text \in TwoSeparatorTexts) =>
        /\ split_result.type = SubSeq(details_text, 1, LastSep(details_text) - 1)
        /\ split_result.entity =
               SubSeq(details_text, LastSep(details_text) + 3, Len(details_text))

\* the hyphens of s that stand between whitespace (or an end of the text)
Separators(s) ==
    {i \in 1..Len(s) :
        /\ s[i] = "-"
        /\ (i = 1 \/ IsSpace(s[i - 1]))
        /\ (i = Len(s) \/ IsSpace(s[i + 1]))}

\* C11: details '<A> - <B>' with exactly one whitespace-bounded hyphen and
\* non-empty A and B are split into (A, B), surrounding whitespace stripped;
\* details without such a hyphen come back as (details, details).
C11_SplitsAtSeparator ==
    split_result.status # "pending" =>
        /\ \A i \in Separators(details_text) :
              (/\ Separators(details_text) = {i}
               /\ strip(SubSeq(details_text, 1, i - 1)) # <<>>
               /\ strip(SubSeq(details_text, i + 1, Len(details_text))) # <<>>)
              => /\ split_result.type = strip(SubSeq(details_text, 1, i - 1))
                 /\ split_result.entity =
                        strip(SubSeq(details_text, i + 1, Len(details_text)))
        /\ Separators(details_text) = {} =>
              /\ split_result.type = details_text
              /\ split_result.entity = details_text

\* one separator, a hyphen inside a word of A and spaces to strip: split
C11_Witness ==
    /\ split_result.status # "pending"
    /\ Cardinality(Separators(details_text)) = 1
    /\ \E i \in 1..Len(details_text) :
          details_text[i] = "-" /\ i \notin Separators(details_text)
    /\ split_result.type # details_text
    /\ split_result.type # <<>> /\ split_result.entity # <<>>
    /\ Len(split_result.type) + Len(split_result.entity) + 3 < Len(details_text)

\* the positions of the spaces of s
Spaces(s) == {i \in 1..Len(s) : s[i] = " "}

\* s is made of tokens separated by single spaces
SingleSpaced(s) ==
    /\ \A i \in Spaces(s) : i # 1 /\ i # Len(s) /\ i + 1 \notin Spaces(s)
    /\ \A i \in 1..Len(s) : IsSpace(s[i]) => s[i] = " "

\* C12: for a type of single-space-separated tokens type_class is the first
\* four tokens (all of them when there are fewer), type_desc the remaining
\* ones, and type_class, a space and type_desc put together give the type.
C12_SplitTypeLossless ==
    (split_result.status = "done" /\ SingleSpaced(split_result.type)) =>
        LET t == split_result.type
            cut == {i \in Spaces(t) :
                      Cardinality({j \in Spaces(t) : j < i}) = 3}
        IN /\ cut = {} => split_result.type_class = t /\ split_result.type_desc = <<>>
           /\ \A i \in cut :
                 /\ split_result.type_class = SubSeq(t, 1, i - 1)
                 /\ split_result.type_desc = SubSeq(t, i + 1, Len(t))
           /\ t = split_result.type_class
                   \o (IF split_result.type_desc = <<>> THEN <<>>
                       ELSE <<" ">> \o split_result.type_desc)

\* a type of five tokens: four in type_class, one in type_desc
C12_Witness ==
    /\ split_result.status = "done"
    /\ SingleSpaced(split_result.type)
    /\ Cardinality(Spaces(split_result.type)) = 4
    /\ split_result.type_desc # <<>>
    /\ Cardinality(Spaces(split_result.type_class)) = 3

-----------------------------------------------------------------------------
(* SpecClean: clean_data applied to a table of the extraction backend *)

MaxRawRows == 2

balance == <<"b","a","l","a","n","c","e">>
Canonical == <<receiptno, completiontime, details, paidin, withdrawn>>

Without(q, name) == SelectSeq(q, LAMBDA c : c # name)

\* the column headers the tables come with
Layouts ==
    { Canonical,
      \* the e-mailed statement's 'receiptno.' and the line-broken 'withdraw\nn'
      <<receiptno \o <<".">>, completiontime, details, paidin,
        <<"w","i","t","h","d","r","a","w","\n","n">> >>,
      \* 'ReceiptNo', 'CompletionTime', 'Details', 'PaidIn', 'Withdrawn'
      Pick(EXPECTED_COLUMNS, <<2, 3, 4, 5, 6>>),
      \* the same with one header already in lower case
      <<EXPECTED_COLUMNS[2], EXPECTED_COLUMNS[3], details, EXPECTED_COLUMNS[5],
        EXPECTED_COLUMNS[6]>>,
      [i \in 1..5 |-> <<" ">> \o Canonical[i] \o <<" ">>],
      Canonical \o <<balance>>,
      <<details>> \o Canonical,
      <<balance, <<"n", "o">> >>,
      <<>> }
    \cup {Without(Canonical, c) : c \in SeqRange(Canonical)}

AmountCells ==
    { <<>>, <<"-">>, <<"N", "/", "A">>, <<"n", "a", "n">>, NaN,
      <<"3", "0", "0">>, <<"1", ",", "5", "0", "0">>, <<"-", "1", "0", "0">>,
      <<"a", "b", "c">> }

TimestampCells == { <<"1", " ", "0", "8">>, <<"2", " ", "1", "7">>, NaN, <<"x">>, <<>> }

DetailsCells ==
    { <<"p","a","y"," ","b","i","l","l"," ","-"," ","k","p","l","c">>,
      <<"s","e","n","t"," "," ","t","o"," ","-"," ","j","o"," ","-"," ","d","o">>,
      NaN }

BaseRow ==
    [receiptno |-> <<"R", "1">>, completiontime |-> <<"1", " ", "0", "8">>,
     details |-> <<"p","a","y"," ","b","i","l","l"," ","-"," ","k","p","l","c">>,
     paidin |-> <<>>, withdrawn |-> <<"3", "0", "0">>]

\* the statement rows: the base row with one cell varied (both amount cells
\* together)
SourceRows ==
    {[BaseRow EXCEPT !.completiontime = c] : c \in TimestampCells}
    \cup {[BaseRow EXCEPT !.paidin = c, !.withdrawn = c] : c \in AmountCells}
    \cup {[BaseRow EXCEPT !.details = c] : c \in DetailsCells}
    \cup {[BaseRow EXCEPT !.receiptno = c] : c \in {<<"R", "2">>, NaN}}

\* the statement field a header names (none for a foreign column)
FieldOf(name) ==
    LET n == strip(lower(name))
    IN  IF n = receiptno \o <<".">> THEN receiptno
        ELSE IF n = <<"w","i","t","h","d","r","a","w","\n","n">> THEN withdrawn
        ELSE n

CellOf(src, f) ==
    IF f = receiptno THEN src.receiptno
    ELSE IF f = completiontime THEN src.completiontime
    ELSE IF f = details THEN src.details
    ELSE IF f = paidin THEN src.paidin
    ELSE IF f = withdrawn THEN src.withdrawn
    ELSE <<"0">>

NoneFrame == [is_none |-> TRUE, columns |-> <<>>, rows |-> <<>>]

\* the table with the headers of layout and the statement rows srcs, each cell
\* under the header that names its field
RawFrame(layout, srcs) ==
    LET fields == [c \in 1..Len(layout) |-> FieldOf(layout[c])]
    IN  [is_none |-> FALSE,
         columns |-> layout,
         rows |-> [r \in 1..Len(srcs) |->
                     [c \in 1..Len(layout) |-> CellOf(srcs[r], fields[c])]]]

InitClean ==
    /\ \/ raw_df = NoneFrame
       \/ \E layout \in Layouts, n \in 0..MaxRawRows :
             \E srcs \in [1..n -> SourceRows] : raw_df = RawFrame(layout, srcs)
    /\ clean_result = Pending
    /\ SplitIdle /\ MatchIdle /\ CatIdle /\ AnIdle /\ LaterIdle

\* app.py:182  df_cleaned = clean_data(df)
CleanData ==
    /\ clean_result.status = "pending"
    /\ clean_result' = clean_data(raw_df)
    /\ UNCHANGED <<raw_df, splitVars, matchVars, catVars, anVars, laterVars>>

NextClean == CleanData

SpecClean == InitClean /\ [][NextClean]_vars

\* C7: every row clean_data returns has withdrawn >= 0 and paidin >= 0,
\* whatever sign or formatting the source cell had.
C7_AmountsNonNegative ==
    clean_result.status = "ok" =>
        \A r \in 1..Len(clean_result.rows) :
            clean_result.rows[r].withdrawn >= 0 /\ clean_result.rows[r].paidin >= 0

\* the column names the claim lists
RecognizedNames == {receiptno, receiptno \o <<".">>, completiontime, details, paidin, withdrawn}

NoRecognizedColumn(df) ==
    \A c \in 1..Len(df.columns) : strip(df.columns[c]) \notin RecognizedNames

\* C8: for an input that is None, empty, or whose column names include none of
\* the recognized statement columns, clean_data raises DataCleaningError and
\* returns no rows.
C8_SchemaError ==
    (/\ clean_result.status # "pending"
     /\ \/ raw_df.is_none
        \/ raw_df.columns = <<>>
        \/ raw_df.rows = <<>>
        \/ NoRecognizedColumn(raw_df))
    => clean_result = [status |-> "DataCleaningError", rows |-> <<>>]

\* a table with rows and columns, none of them recognized, has been rejected
C8_Witness ==
    /\ clean_result.status = "DataCleaningError"
    /\ ~raw_df.is_none /\ raw_df.rows # <<>> /\ raw_df.columns # <<>>
    /\ NoRecognizedColumn(raw_df)

\* C9: every row clean_data returns has a parsed completiontime: rows whose
\* timestamp is missing or cannot be parsed are absent from the output.
C9_TimestampsParsed ==
    clean_result.status = "ok" =>
        \A r \in 1..Len(clean_result.rows) : clean_result.rows[r].completiontime # NaT

-----------------------------------------------------------------------------
(* SpecMatch: _matches_field_pattern and _matches_pattern applied to one call *)

MaxPatternFields == 2

W_pay == <<"p", "a", "y">>
W_bill == <<"b", "i", "l", "l">>
W_kplc == <<"k", "p", "l", "c">>
W_pay_bill == <<"p", "a", "y", " ", "b", "i", "l", "l">>
W_customer == <<"c", "u", "s", "t", "o", "m", "e", "r">>

OperatorKeys == {"contains", "equals", "startswith", "startswith_numeric", "not_starts_with"}

\* the values a match-spec may give to each key ("regex" is a key the code does
\* not know)
FullSpecs ==
    [contains : {<<W_bill>>, <<W_kplc, W_pay>>},
     equals : {[is_list |-> FALSE, value |-> W_pay],
               [is_list |-> FALSE, value |-> W_pay_bill],
               [is_list |-> TRUE, value |-> <<W_pay, W_kplc>>]},
     startswith : {<<W_pay>>, <<<<"1">>, W_kplc>>},
     startswith_numeric : BOOLEAN,
     not_starts_with : {W_pay, W_kplc},
     regex : {W_pay}]

Restrict(f, K) == [k \in K |-> f[k]]

AllKeys == OperatorKeys \cup {"regex"}

\* lower-cased field values
FieldValues ==
    {<<>>, W_pay, W_pay_bill, <<"1", " ", "p", "a", "y">>, W_kplc, <<"b", "i", "l", "l", " ", "k", "p", "l", "c">>}

\* the statement texts the transactions are made from
DetailsTexts4 ==
    {<<"p", "a", "y", " ", "b", "i", "l", "l", " ", "o", "n", "l", "i", "n", "e", " ", "t", "o", " ", "1", "2", " ", "c", "h", "a", "r", "g", "e", " ", "-", " ", "k", "p", "l", "c", " ", "a", "c", "c", ".", " ", "9">>,
     <<"c", "u", "s", "t", "o", "m", "e", "r", " ", "t", "r", "a", "n", "s", "f", "e", "r", " ", "t", "o", " ", "-", " ", "0", "7", "*", "*", "1", " ", "j", "o", " ", "d", "o">>,
     <<"p", "a", "y", " ", "b", "i", "l", "l">>}

\* the row clean_data makes of one statement row (cleaner.py:202-272)
Transaction(receipt, details_cell, paidin_cell, withdrawn_cell) ==
    CHOOSE row \in
        {_extract_transaction_info(<<typed>>)[1] :
            typed \in {[receiptno |-> receipt,
                        completiontime |-> to_datetime(<<"1", " ", "0", "8">>),
                        withdrawn |-> clean_withdrawn(withdrawn_cell),
                        paidin |-> clean_paidin(paidin_cell),
                        details |-> clean_details(details_cell)]}} : TRUE

MatchRows == {Transaction(<<"R", "1">>, d, <<>>, <<"3", "0", "0">>) : d \in DetailsTexts4}

\* the items a patterns mapping is made of ("amount" is a field the code does
\* not know)
PatternItems ==
    [field : FieldNames \cup {"amount"},
     spec : {[k \in {"contains"} |-> <<W_pay_bill>>],
             [k \in {"contains"} |-> <<W_kplc, W_charge>>],
             [k \in {"startswith"} |-> <<W_customer>>],
             [k \in {"startswith_numeric"} |-> TRUE],
             [k \in {"contains"} |-> <<W_kplc>>],
             \* values written as 'Pay Bill'
             [k \in {"contains"} |-> <<Cap(W_pay_bill, {1, 5})>>],
             [k \in {"equals"} |-> [is_list |-> FALSE, value |-> Cap(W_pay_bill, {1, 5})]]}]

Distinct(items) == \A i, j \in 1..Len(items) : i # j => items[i].field # items[j].field

InitMatch ==
    /\ \/ /\ \E v \in FieldValues, f \in FullSpecs, K \in SUBSET AllKeys :
               field_call = [status |-> "call", field_value |-> v,
                             field_patterns |-> Restrict(f, K)]
          /\ pattern_call = Pending
       \/ /\ field_call = Pending
          /\ \E row \in MatchRows, n \in 0..MaxPatternFields :
               \E items \in [1..n -> PatternItems] :
                  /\ Distinct(items)
                  /\ pattern_call = [status |-> "call", row |-> row, patterns |-> items]
    /\ field_result = Pending /\ pattern_result = Pending
    /\ SplitIdle /\ CleanIdle /\ CatIdle /\ AnIdle /\ LaterIdle

\* categorizer.py:254
MatchesFieldPattern ==
    /\ field_call.status = "call" /\ field_result.status = "pending"
    /\ field_result' =
          [status |-> "done",
           value |-> _matches_field_pattern(field_call.field_value, field_call.field_patterns)]
    /\ UNCHANGED <<field_call, pattern_call, pattern_result,
                   splitVars, cleanVars, catVars, anVars, laterVars>>

\* categorizer.py:135-138, 167-169: the fields are lower-cased by the caller,
\* entity inside _matches_pattern
MatchesPattern ==
    /\ pattern_call.status = "call" /\ pattern_result.status = "pending"
    /\ pattern_result' =
          [status |-> "done",
           value |-> _matches_pattern(lower(pattern_call.row.details),
                                      lower(pattern_call.row.type_desc),
                                      lower(pattern_call.row.type_class),
                                      pattern_call.row.entity,
                                      pattern_call.patterns)]
    /\ UNCHANGED <<field_call, field_result, pattern_call,
                   splitVars, cleanVars, catVars, anVars, laterVars>>

NextMatch == MatchesFieldPattern \/ MatchesPattern

SpecMatch == InitMatch /\ [][NextMatch]_vars

\* whether the field of the transaction that an item names satisfies the item
ItemHolds(row, item) ==
    _matches_field_pattern(
        lower(CASE item.field = "details" -> row.details
                [] item.field = "type_desc" -> row.type_desc
                [] item.field = "type_class" -> row.type_class
                [] item.field = "entity" -> row.entity),
        item.spec)

KnownItems(patterns) == {i \in 1..Len(patterns) : patterns[i].field \in FieldNames}

\* C4: a definition matches a transaction iff every field named in patterns
\* (details, entity, type_class, type_desc) satisfies its match-spec; a field
\* that is not named imposes no constraint, so empty patterns match.
C4_AndAcrossFields ==
    pattern_result.status = "done" =>
        (pattern_result.value <=>
            \A i \in KnownItems(pattern_call.patterns) :
                ItemHolds(pattern_call.row, pattern_call.patterns[i]))

\* two fields are named, one satisfied and one not, and the call returned False
C4_Witness ==
    /\ pattern_result.status = "done"
    /\ ~pattern_result.value
    /\ \E i, j \in KnownItems(pattern_call.patterns) :
          /\ ItemHolds(pattern_call.row, pattern_call.patterns[i])
          /\ ~ItemHolds(pattern_call.row, pattern_call.patterns[j])

\* whether the operator key, as configured in spec, succeeds on value
Succeeds(key, spec, value) ==
    CASE key = "contains" ->
            \E i \in 1..Len(spec[key]) : contains(value, spec[key][i])
      [] key = "equals" -> value = spec[key].value
      [] key = "startswith" ->
            \E i \in 1..Len(spec[key]) : startswith(value, spec[key][i])
      [] key = "startswith_numeric" ->
            spec[key] /\ value # <<>> /\ value[1] \in Digits
      [] key = "not_starts_with" -> ~startswith(value, spec[key])

Configured(spec) == DOMAIN spec \cap OperatorKeys

\* a match-spec that combines several operators, equals being a single value
SeveralOperators(spec) ==
    /\ Cardinality(Configured(spec)) >= 2
    /\ ("equals" \in DOMAIN spec => ~spec["equals"].is_list)

\* C5: when a match-spec combines several operators, the field matches iff at
\* least one configured operator succeeds on the field value.
C5_OrWithinField ==
    (field_result.status = "done" /\ SeveralOperators(field_call.field_patterns)) =>
        (field_result.value <=>
            \E key \in Configured(field_call.field_patterns) :
                Succeeds(key, field_call.field_patterns, field_call.field_value))

\* contains is configured and fails, a later operator succeeds, and the field matched
C5_Witness ==
    /\ field_result.status = "done"
    /\ SeveralOperators(field_call.field_patterns)
    /\ "contains" \in DOMAIN field_call.field_patterns
    /\ ~Succeeds("contains", field_call.field_patterns, field_call.field_value)
    /\ field_result.value


-----------------------------------------------------------------------------
(* SpecCat: one TransactionCategorizer and one cleaned frame; the frame is    *)
(* categorized up to MaxRuns times, on the same object or on a fresh one      *)

MaxTransactions == 2
MaxRuns == 2

\* definitions as configs/categories.yaml gives them, in file order
FileDefinitions ==
    << [name |-> "Send Money",
        patterns |-> <<[field |-> "type_class",
                        spec |-> [k \in {"startswith"} |-> <<W_customer>>]]>>],
       [name |-> "PayBillPayments",
        patterns |-> <<[field |-> "details",
                        spec |-> [k \in {"contains"} |-> <<W_pay_bill>>]]>>],
       [name |-> "Charges",
        patterns |-> <<[field |-> "type_desc",
                        spec |-> [k \in {"contains"} |-> <<W_charge>>]]>>] >>

\* the custom_categories argument: none, a definition with a name of its own,
\* or a definition that carries the name of a special category
CustomCategories ==
    { <<>>,
      <<[name |-> "Bills",
         patterns |-> <<[field |-> "entity",
                         spec |-> [k \in {"contains"} |-> <<W_kplc>>]]>>]>>,
      <<[name |-> "uncategorized",
         patterns |-> <<[field |-> "details",
                         spec |-> [k \in {"contains"} |-> <<W_pay_bill>>]]>>]>>,
      <<[name |-> "Utilities",
         patterns |-> <<[field |-> "details",
                         spec |-> [k \in {"contains"} |-> <<W_pay_bill>>]]>>],
        [name |-> "Bills",
         patterns |-> <<[field |-> "entity",
                         spec |-> [k \in {"contains"} |-> <<W_kplc>>]]>>]>> }

\* the file definitions at the positions in K, in file order
FileSelection(K) ==
    Pick(FileDefinitions,
         Indices(Len(FileDefinitions), [i \in 1..Len(FileDefinitions) |-> i \in K]))

\* details cells of the statement rows: the texts, a missing value, an empty text
CatDetailsCells == DetailsTexts4 \cup {NaN, <<>>}

Receipt(i) == <<"R", CHOOSE c \in Digits : DigitValue(c) = i>>

\* the cleaned rows of the statement rows, before their receipt numbers
CleanedRows ==
    {Transaction(<<"R">>, cell, <<>>, <<"3", "0", "0">>) : cell \in CatDetailsCells}

InitCat ==
    /\ \E custom \in CustomCategories, K \in SUBSET (1..Len(FileDefinitions)) :
          category_definitions = load_category_definitions(custom, FileSelection(K))
    /\ categories = empty_categories(category_definitions)
    /\ \E n \in 0..MaxTransactions :
          \E rows \in [1..n -> CleanedRows] :
             df_cleaned = [i \in 1..n |-> [rows[i] EXCEPT !.receiptno = Receipt(i)]]
    /\ matched = <<>> /\ cat_returns = <<>>
    /\ SplitIdle /\ MatchIdle /\ CleanIdle /\ AnIdle /\ LaterIdle

\* categorizer.py:73-120 on the object at hand; matched keeps what
\* categorize_transaction returned for each row, cat_returns what each run returned
CategorizeTransactions ==
    /\ Len(cat_returns) < MaxRuns
    /\ matched' = [i \in 1..Len(df_cleaned) |->
                     categorize_transaction(df_cleaned[i], category_definitions)]
    /\ categories' = append_rows(categories, matched')
    /\ cat_returns' = Append(cat_returns, categories')
    /\ UNCHANGED <<category_definitions, df_cleaned,
                   splitVars, matchVars, cleanVars, anVars, laterVars>>

\* app.py:226: a new TransactionCategorizer over the same definitions
NewTransactionCategorizer ==
    /\ categories' = empty_categories(category_definitions)
    /\ UNCHANGED <<category_definitions, df_cleaned, matched, cat_returns,
                   splitVars, matchVars, cleanVars, anVars, laterVars>>

NextCat == CategorizeTransactions \/ NewTransactionCategorizer

SpecCat == InitCat /\ [][NextCat]_vars

RowMatches(row, cat_def) ==
    _matches_pattern(lower(row.details), lower(row.type_desc), lower(row.type_class),
                     row.entity, cat_def.patterns)

HasDetails(row) == lower(row.details) # <<>> /\ lower(row.details) # W_nan

\* the definitions, by position, whose patterns match the row
Hits(row) ==
    {k \in 1..Len(category_definitions) : RowMatches(row, category_definitions[k])}

\* rec is a record of the transaction row in the category name
RecordOf(rec, row, name) ==
    rec.category = name /\ rec.receiptno = row.receiptno /\ rec.details = row.details

Holds(list, row, name) == \E n \in 1..Len(list) : RecordOf(list[n], row, name)

\* C1: for a transaction with non-empty details categorize_transaction emits one
\* record for every definition whose patterns match, and each run of
\* categorize_transactions returns the transaction in the category of every
\* matching definition.
C1_FanOut ==
    Len(cat_returns) > 0 =>
        \A i \in 1..Len(df_cleaned) :
            HasDetails(df_cleaned[i]) =>
              \A hits \in {Hits(df_cleaned[i])} :
                /\ hits # {} => Len(matched[i]) = Cardinality(hits)
                /\ \A k \in hits :
                      /\ Holds(matched[i], df_cleaned[i], category_definitions[k].name)
                      /\ \A r \in 1..Len(cat_returns) :
                            Holds(cat_returns[r][category_definitions[k].name],
                                  df_cleaned[i], category_definitions[k].name)

\* a transaction matched two definitions of different names and the run
\* returned it in both categories
C1_Witness ==
    /\ Len(cat_returns) > 0
    /\ \E i \in 1..Len(df_cleaned) :
          \E k, l \in Hits(df_cleaned[i]) :
             /\ category_definitions[k].name # category_definitions[l].name
             /\ Holds(cat_returns[1][category_definitions[k].name],
                      df_cleaned[i], category_definitions[k].name)
             /\ Holds(cat_returns[1][category_definitions[l].name],
                      df_cleaned[i], category_definitions[l].name)

IsSentinel(rec) == rec.category \in {"NoDetails", "uncategorized"}

\* C2: categorize_transaction returns a non-empty list; for empty or 'nan'
\* details exactly one record tagged NoDetails; otherwise exactly one record
\* tagged uncategorized iff no definition matches, and no sentinel-tagged
\* record when at least one definition matches.
C2_SentinelsExclusive ==
    Len(cat_returns) > 0 =>
        \A i \in 1..Len(df_cleaned) :
            /\ Len(matched[i]) >= 1
            /\ ~HasDetails(df_cleaned[i]) =>
                  Len(matched[i]) = 1 /\ matched[i][1].category = "NoDetails"
            /\ HasDetails(df_cleaned[i]) =>
                  /\ (Len(matched[i]) = 1 /\ matched[i][1].category = "uncategorized")
                        <=> Hits(df_cleaned[i]) = {}
                  /\ Hits(df_cleaned[i]) # {} =>
                        \A n \in 1..Len(matched[i]) : ~IsSentinel(matched[i][n])

\* C6: every run of categorize_transactions on the same transactions and the
\* same definitions returns, for every category, the same set and the same
\* number of rows, also when the categorizer object is used again.
C6_Idempotent ==
    \A r, q \in 1..Len(cat_returns) :
        \A name \in DOMAIN cat_returns[r] :
            /\ Len(cat_returns[r][name]) = Len(cat_returns[q][name])
            /\ SeqRange(cat_returns[r][name]) = SeqRange(cat_returns[q][name])


-----------------------------------------------------------------------------
(* SpecAn: an Analyzer over one categorized mapping and one call of           *)
(* analyze_category                                                           *)

MaxCategoryRows == 2

RowColumns == {"receiptno", "paidin", "withdrawn", "is_charge", "processed_entity"}

\* rows of a category set: both amount columns are filled in some rows, and
\* one row has no receipt number
CategoryRows ==
    [receiptno : {<<"R", "1">>, <<"R", "2">>},
     paidin : {0, 100}, withdrawn : {30, 300},
     is_charge : BOOLEAN,
     processed_entity : {<<"J", "o">>}]
    \cup
    [receiptno : {<<"R", "1">>, NaN},
     paidin : {0}, withdrawn : {300},
     is_charge : BOOLEAN,
     processed_entity : {<<"K", "p", "l", "c">>}]

CategoryNames == {"Send Money", "Bills"}

InitAn ==
    /\ \E columns \in {RowColumns, RowColumns \ {"is_charge"}}, n \in 0..MaxCategoryRows :
          \E rows \in [1..n -> CategoryRows] :
             data = [name \in {"Send Money"} |->
                       IF n = 0 THEN EmptyFrame
                       ELSE [columns |-> columns,
                             rows |-> [r \in 1..n |-> Restrict(rows[r], columns)]]]
    /\ analysis = Pending
    /\ SplitIdle /\ MatchIdle /\ CleanIdle /\ CatIdle /\ LaterIdle

\* analyzer.py:329-390
AnalyzeCategory ==
    /\ analysis.status = "pending"
    /\ \E category_name \in CategoryNames, is_money_in \in BOOLEAN :
          \E result \in analyze_category(data, category_name, is_money_in) :
             analysis' = [status |-> "done", category_name |-> category_name,
                          is_money_in |-> is_money_in, result |-> result]
    /\ UNCHANGED <<data, splitVars, matchVars, cleanVars, catVars, laterVars>>

NextAn == AnalyzeCategory

SpecAn == InitAn /\ [][NextAn]_vars

\* the sum of amounts over the row positions in S
RECURSIVE SumOver(_, _)
SumOver(amounts, S) ==
    IF S = {} THEN 0
    ELSE LET r == CHOOSE r \in S : TRUE IN amounts[r] + SumOver(amounts, S \ {r})

\* the call analysed a category set that has rows and an is_charge column
AnalysedWithCharges ==
    /\ analysis.status = "done"
    /\ analysis.category_name \in DOMAIN data
    /\ data[analysis.category_name].rows # <<>>
    /\ "is_charge" \in data[analysis.category_name].columns

\* C3: for a non-empty category set with an is_charge column, total_amount is
\* the sum of the authoritative column (paidin when is_money_in, withdrawn
\* otherwise) over the rows that are not charges, total_charges the sum of that
\* column over the charge rows, and transaction_count the number of distinct
\* receipt numbers among the rows that are not charges; nothing else of the
\* rows enters the three values.
C3_TotalsByDirection ==
    AnalysedWithCharges =>
        LET rows == data[analysis.category_name].rows
            authoritative == [r \in 1..Len(rows) |->
                                IF analysis.is_money_in THEN rows[r].paidin
                                ELSE rows[r].withdrawn]
            plain == {r \in 1..Len(rows) : ~rows[r].is_charge}
        IN /\ analysis.result.total_amount = SumOver(authoritative, plain)
           /\ analysis.result.total_charges =
                 SumOver(authoritative, (1..Len(rows)) \ plain)
           /\ analysis.result.transaction_count =
                 Cardinality({rows[r].receiptno : r \in plain} \ {NaN})

\* outbound analysis of a payment of 300 and its charge of 30, both rows with
\* a paid-in amount as well: 300, 30 and one transaction
C3_Witness ==
    /\ AnalysedWithCharges
    /\ ~analysis.is_money_in
    /\ \E r \in 1..Len(data[analysis.category_name].rows) :
          /\ data[analysis.category_name].rows[r].is_charge
          /\ data[analysis.category_name].rows[r].paidin > 0
    /\ \E r \in 1..Len(data[analysis.category_name].rows) :
          /\ ~data[analysis.category_name].rows[r].is_charge
          /\ data[analysis.category_name].rows[r].paidin > 0
    /\ analysis.result.total_amount = 300
    /\ analysis.result.total_charges = 30
    /\ analysis.result.transaction_count = 1

\* C13: in every result of analyze_category the rows of aggregated_frame are
\* in non-increasing order of amount.
C13_AggregatedSorted ==
    analysis.status = "done" =>
        \A i \in 1..(Len(analysis.result.aggregated_frame) - 1) :
            analysis.result.aggregated_frame[i].amount
                >= analysis.result.aggregated_frame[i + 1].amount

\* two entities with different totals, the larger one first
C13_Witness ==
    /\ analysis.status = "done"
    /\ Len(analysis.result.aggregated_frame) = 2
    /\ analysis.result.aggregated_frame[1].amount
           > analysis.result.aggregated_frame[2].amount
    /\ analysis.result.aggregated_frame[2].amount > 0

\* the call named a category that is not in the mapping or has no rows
AnalysedAbsent ==
    /\ analysis.status = "done"
    /\ \/ analysis.category_name \notin DOMAIN data
       \/ data[analysis.category_name].rows = <<>>

\* C14: for a category name that is not in the mapping, or whose set is
\* empty, analyze_category returns the empty result (zero totals, zero count,
\* empty frames) for either direction.
C14_EmptyResult ==
    AnalysedAbsent =>
        /\ analysis.result.total_amount = 0
        /\ analysis.result.total_charges = 0
        /\ analysis.result.transaction_count = 0
        /\ analysis.result.aggregated_frame = <<>>
        /\ analysis.result.raw_df = EmptyFrame

\* an inbound analysis of a name the mapping lacks, other categories having rows
C14_Witness ==
    /\ AnalysedAbsent
    /\ analysis.is_money_in
    /\ analysis.category_name \notin DOMAIN data
    /\ \E name \in DOMAIN data : data[name].rows # <<>>
    /\ analysis.result = _empty_result

\* text holds word at some position, letter case ignored
ContainsIgnoringCase(text, word) ==
    \E i \in 1..(Len(text) - Len(word) + 1) :
        \A j \in 1..Len(word) : LowerChar(text[i + j - 1]) = LowerChar(word[j])

\* the patterns are details.contains = [k] and nothing else
OnlyDetailsContains(patterns) ==
    /\ Len(patterns) = 1
    /\ patterns[1].field = "details"
    /\ DOMAIN patterns[1].spec = {"contains"}
    /\ Len(patterns[1].spec["contains"]) = 1

\* C15: a definition whose only pattern is details.contains = [k], k in lower
\* case, matches every transaction whose details holds k in any letter case,
\* whatever stands before or after it.
C15_ContainsIgnoresCase ==
    (/\ pattern_result.status = "done"
     /\ OnlyDetailsContains(pattern_call.patterns)
     /\ \A j \in 1..Len(pattern_call.patterns[1].spec["contains"][1]) :
           ~IsUpper(pattern_call.patterns[1].spec["contains"][1][j])
     /\ ContainsIgnoringCase(pattern_call.row.details,
                             pattern_call.patterns[1].spec["contains"][1]))
    => pattern_result.value

\* k stands inside details that are written with capitals, and the call matched
C15_Witness ==
    /\ pattern_result.status = "done"
    /\ OnlyDetailsContains(pattern_call.patterns)
    /\ pattern_call.patterns[1].spec["contains"][1] = W_kplc
    /\ ~contains(pattern_call.row.details, W_kplc)
    /\ ContainsIgnoringCase(pattern_call.row.details, W_kplc)
    /\ ~startswith(lower(pattern_call.row.details), W_kplc)
    /\ pattern_result.value

\* the one operator of a match-spec that has a single operator
TheKey(spec) == CHOOSE key \in DOMAIN spec : TRUE

\* word is a prefix of text, letter case ignored
StartsIgnoringCase(text, word) ==
    /\ Len(word) <= Len(text)
    /\ \A j \in 1..Len(word) : LowerChar(text[j]) = LowerChar(word[j])

\* text and word are the same text, letter case ignored
EqualIgnoringCase(text, word) ==
    Len(text) = Len(word) /\ StartsIgnoringCase(text, word)

\* the text of row that an item names
FieldText(row, item) ==
    CASE item.field = "details" -> row.details
      [] item.field = "type_desc" -> row.type_desc
      [] item.field = "type_class" -> row.type_class
      [] item.field = "entity" -> row.entity

\* C16: contains, equals and startswith compare without regard to letter
\* case on both sides: a definition with one such operator on one field
\* matches iff the comparison succeeds with the letter case of the field and
\* of the configured value ignored.
C16_CaseInsensitive ==
    (/\ pattern_result.status = "done"
     /\ Len(pattern_call.patterns) = 1
     /\ pattern_call.patterns[1].field \in FieldNames
     /\ Cardinality(DOMAIN pattern_call.patterns[1].spec) = 1
     /\ TheKey(pattern_call.patterns[1].spec) \in {"contains", "equals", "startswith"})
    => LET item == pattern_call.patterns[1]
           text == FieldText(pattern_call.row, item)
       IN pattern_result.value <=>
            CASE TheKey(item.spec) = "contains" ->
                    \E i \in 1..Len(item.spec["contains"]) :
                        ContainsIgnoringCase(text, item.spec["contains"][i])
              [] TheKey(item.spec) = "startswith" ->
                    \E i \in 1..Len(item.spec["startswith"]) :
                        StartsIgnoringCase(text, item.spec["startswith"][i])
              [] TheKey(item.spec) = "equals" ->
                    IF item.spec["equals"].is_list
                    THEN \E i \in 1..Len(item.spec["equals"].value) :
                            EqualIgnoringCase(text, item.spec["equals"].value[i])
                    ELSE EqualIgnoringCase(text, item.spec["equals"].value)

\* the match-spec of the call has the one operator key
OnlyOperator(key) ==
    /\ field_result.status = "done"
    /\ DOMAIN field_call.field_patterns = {key}

\* C17: equals takes a single value or a list: {equals: [v1, ..., vn]}
\* matches iff the field value is one of v1..vn, {equals: v} iff it is v.
C17_EqualsList ==
    OnlyOperator("equals") =>
        (field_result.value <=>
            IF field_call.field_patterns["equals"].is_list
            THEN \E i \in 1..Len(field_call.field_patterns["equals"].value) :
                    field_call.field_value = field_call.field_patterns["equals"].value[i]
            ELSE field_call.field_value = field_call.field_patterns["equals"].value)

\* C18: a match-spec whose only operator is not_starts_with = p matches iff
\* the field value does not start with p.
C18_NotStartsWith ==
    OnlyOperator("not_starts_with") =>
        (field_result.value <=>
            ~startswith(field_call.field_value,
                        field_call.field_patterns["not_starts_with"]))

\* the names of the definitions of the session and of the file
CustomNames == UNION {{custom[i].name : i \in 1..Len(custom)} : custom \in CustomCategories}

FileNames == {FileDefinitions[i].name : i \in 1..Len(FileDefinitions)}

\* the definitions of the list that come from the file, in list order
FilePart == SelectSeq(category_definitions, LAMBDA d : d.name \in FileNames)

\* the definitions of the list that the session gave, in list order
CustomPart == SelectSeq(category_definitions, LAMBDA d : d.name \in CustomNames)

\* the names of the definitions of a list that match the row, in list order
RECURSIVE MatchingNames(_, _)
MatchingNames(row, definitions) ==
    IF definitions = <<>> THEN <<>>
    ELSE (IF RowMatches(row, Head(definitions))
          THEN <<Head(definitions).name>> ELSE <<>>)
         \o MatchingNames(row, Tail(definitions))

CategoriesOf(records) == [n \in 1..Len(records) |-> records[n].category]

\* the file categories among the records
FileCategories(records) ==
    {records[n].category : n \in 1..Len(records)} \cap FileNames

\* C19: for a transaction that matches some definition, the records of
\* categorize_transaction name the matching custom definitions in the order
\* given and then the matching file definitions in file order, and the file
\* categories among them are those the file definitions alone give.
C19_CustomFirstNoSuppress ==
    Len(cat_returns) > 0 =>
        \A i \in 1..Len(df_cleaned) :
            \A names \in {MatchingNames(df_cleaned[i], CustomPart)
                              \o MatchingNames(df_cleaned[i], FilePart)} :
                (HasDetails(df_cleaned[i]) /\ names # <<>>) =>
                    /\ CategoriesOf(matched[i]) = names
                    /\ FileCategories(matched[i]) =
                          FileCategories(categorize_transaction(df_cleaned[i], FilePart))

\* a transaction matched two custom definitions and two file definitions
C19_Witness ==
    /\ Len(cat_returns) > 0
    /\ \E i \in 1..Len(df_cleaned) :
          /\ HasDetails(df_cleaned[i])
          /\ Len(MatchingNames(df_cleaned[i], CustomPart)) = 2
          /\ Len(MatchingNames(df_cleaned[i], FilePart)) = 2
          /\ Len(matched[i]) = 4
          /\ matched[i][1].category \in CustomNames
          /\ matched[i][3].category \in FileNames

\* the same table with its column names in lower case
WithLowerNames(df) ==
    [df EXCEPT !.columns = [c \in 1..Len(df.columns) |-> lower(df.columns[c])]]

\* a table with rows whose column names are recognized names up to letter case
\* and surrounding spaces
NamedUpToCase(df) ==
    /\ ~df.is_none
    /\ df.rows # <<>>
    /\ df.columns # <<>>
    /\ \A c \in 1..Len(df.columns) : strip(lower(df.columns[c])) \in RecognizedNames

\* C20: a non-empty table whose column names equal the recognized names up to
\* letter case and leading or trailing spaces gets from clean_data the result
\* the same table with lower-case names gets.
C20_NamesIgnoreCase ==
    (clean_result.status # "pending" /\ NamedUpToCase(raw_df)) =>
        clean_result = clean_data(WithLowerNames(raw_df))

\* C21: clean_data has two outcomes for any input table: it returns the
\* normalized rows or it raises DataCleaningError; no other exception reaches
\* the caller.
C21_TwoOutcomes ==
    clean_result.status \in {"pending", "ok", "DataCleaningError"}

-----------------------------------------------------------------------------
(* SpecEnt: _process_entity on the record of one matched category *)

MaxEntityWords == 3

\* masked and plain phone tokens, names, and the words the business and
\* paybill patterns look for
EntityWords ==
    { <<"0", "7", "*", "*", "1">>, <<"0", "7", "1", "2">>, <<"J", "o">>, <<"d", "o">>,
      <<"V", "i", "a">>, <<"I", "s">>, <<"A", "c", "c", ".">>, <<"9">> }

Entities ==
    {JoinWords(ws) : ws \in UNION {[1..n -> EntityWords] : n \in 1..MaxEntityWords}}
    \cup {<<>>}

\* the categories a record can carry when _process_entity is called
EntityCategories ==
    money_transfer_cats \cup {"PayBillPayments", "airtime_bundle", "Pochi", "Bills"}

\* a cleaned statement row whose entity is e
EntityRow(e) == [(CHOOSE row \in MatchRows : TRUE) EXCEPT !.entity = e]

InitEnt ==
    /\ \E e \in Entities, category \in EntityCategories :
          entity_call = [status |-> "call",
                         transaction_data |->
                             [base_transaction_data(EntityRow(e))
                                 EXCEPT !.category = category],
                         category |-> category]
    /\ entity_result = Pending
    /\ SplitIdle /\ MatchIdle /\ CleanIdle /\ CatIdle /\ AnIdle /\ SessIdle /\ FiltIdle

\* categorizer.py:177-179: processed_data = self._process_entity(category_data, name)
ProcessEntity ==
    /\ entity_call.status = "call" /\ entity_result.status = "pending"
    /\ entity_result' =
          [status |-> "done",
           value |-> _process_entity(entity_call.transaction_data, entity_call.category)]
    /\ UNCHANGED <<entity_call, splitVars, matchVars, cleanVars, catVars, anVars,
                   sessVars, filtVars>>

NextEnt == ProcessEntity

SpecEnt == InitEnt /\ [][NextEnt]_vars

\* the position of the first space of s (0 when there is none)
FirstSpace(s) ==
    IF \E i \in 1..Len(s) : s[i] = " "
    THEN CHOOSE i \in 1..Len(s) : s[i] = " " /\ \A j \in 1..(i - 1) : s[j] # " "
    ELSE 0

\* C22: for a record in a money-transfer category whose entity begins with a
\* digit or contains '*', processed_entity is the title-cased text after the
\* first space and account_no the title-cased token before it; with no space
\* processed_entity is the whole token and account_no is empty.
C22_PhoneEntitySplit ==
    (/\ entity_result.status = "done"
     /\ entity_call.category \in money_transfer_cats
     /\ is_phone_number(entity_call.transaction_data.entity)) =>
        LET entity == entity_call.transaction_data.entity
            sp == FirstSpace(entity)
        IN  IF sp = 0
            THEN /\ entity_result.value.processed_entity = entity
                 /\ entity_result.value.account_no = << <<>> >>
            ELSE /\ entity_result.value.processed_entity =
                        title(SubSeq(entity, sp + 1, Len(entity)))
                 /\ entity_result.value.account_no = <<title(SubSeq(entity, 1, sp - 1))>>

\* the categories whose records _process_entity rewrites
ProcessedGroups == money_transfer_cats \cup {"PayBillPayments", "airtime_bundle", "Pochi"}

\* rec carries the row's own values
CarriesRow(rec, row) ==
    /\ rec.receiptno = row.receiptno
    /\ rec.details = row.details
    /\ rec.paidin = row.paidin
    /\ rec.withdrawn = row.withdrawn

\* C23: the records emitted for one transaction are independent copies: the
\* record of each matching definition is a copy of the base record tagged and
\* processed for that definition alone, every record outside the money-transfer, paybill and airtime/wallet
\* groups keeps the original entity as processed_entity, and every record
\* carries the row's receiptno, details, paidin and withdrawn.
C23_IndependentCopies ==
    Len(cat_returns) > 0 =>
        \A i \in 1..Len(df_cleaned) :
            /\ \A k \in Hits(df_cleaned[i]) :
                  HasDetails(df_cleaned[i]) =>
                     \E n \in 1..Len(matched[i]) :
                        matched[i][n] =
                           _process_entity(
                              [base_transaction_data(df_cleaned[i])
                                  EXCEPT !.category = category_definitions[k].name],
                              category_definitions[k].name)
            /\ \A n \in 1..Len(matched[i]) :
                  /\ CarriesRow(matched[i][n], df_cleaned[i])
                  /\ matched[i][n].category \notin ProcessedGroups =>
                        matched[i][n].processed_entity = df_cleaned[i].entity

\* a transaction got a paybill record with the business name taken out of the
\* entity and, after it, a record of another category with the entity whole
C23_Witness ==
    /\ Len(cat_returns) > 0
    /\ \E i \in 1..Len(df_cleaned) :
          \E n, l \in 1..Len(matched[i]) :
             /\ n < l
             /\ matched[i][n].category = "PayBillPayments"
             /\ matched[i][n].processed_entity # df_cleaned[i].entity
             /\ matched[i][l].category \notin ProcessedGroups
             /\ matched[i][l].processed_entity = df_cleaned[i].entity

\* 'charge' occurs, letter case ignored, in the row's type_desc or details
MentionsCharge(row) ==
    \/ ContainsIgnoringCase(row.type_desc, W_charge)
    \/ ContainsIgnoringCase(row.details, W_charge)

\* C24: every record emitted for a transaction, in every category and in both
\* sentinels, has is_charge true exactly when 'charge' occurs, letter case
\* ignored, in the transaction's type_desc or details; so all copies of one
\* transaction carry the same value.
C24_IsCharge ==
    Len(cat_returns) > 0 =>
        \A i \in 1..Len(df_cleaned) :
            /\ \A n \in 1..Len(matched[i]) :
                  matched[i][n].is_charge <=> MentionsCharge(df_cleaned[i])
            /\ \A name \in DOMAIN cat_returns[1] :
                  \A n \in 1..Len(cat_returns[1][name]) :
                     cat_returns[1][name][n].receiptno = df_cleaned[i].receiptno =>
                        (cat_returns[1][name][n].is_charge <=> MentionsCharge(df_cleaned[i]))

\* a transaction whose details say 'Charge' got several records, all with
\* is_charge set, and another transaction got a record with is_charge unset
C24_Witness ==
    /\ Len(cat_returns) > 0
    /\ \E i, j \in 1..Len(df_cleaned) :
          /\ Len(matched[i]) >= 2
          /\ \A n \in 1..Len(matched[i]) : matched[i][n].is_charge
          /\ ~contains(df_cleaned[i].details, W_charge)
          /\ ~matched[j][1].is_charge

\* the orders the rows of a frame can arrive in
ArrivalOrders(n) == {p \in [1..n -> 1..n] : \A i, j \in 1..n : i # j => p[i] # p[j]}

\* the mapping with the rows of one category in the order p
Permuted(frames, category_name, p) ==
    [frames EXCEPT ![category_name].rows =
        [r \in 1..Len(frames[category_name].rows) |-> frames[category_name].rows[p[r]]]]

Groups(result) == {result.aggregated_frame[g] : g \in 1..Len(result.aggregated_frame)}

\* the call analysed a category set that has rows
AnalysedRows ==
    /\ analysis.status = "done"
    /\ analysis.category_name \in DOMAIN data
    /\ data[analysis.category_name].rows # <<>>

RECURSIVE FrameSum(_, _)
FrameSum(frame, column) ==
    IF frame = <<>> THEN 0 ELSE Head(frame)[column] + FrameSum(Tail(frame), column)

\* C28: for a non-empty category set total_amount + total_charges is the sum
\* of the authoritative column over all rows, the amounts of aggregated_frame
\* sum to total_amount, and the counts of aggregated_frame sum to the number
\* of rows that are not charges, which is at least transaction_count and
\* equal to it exactly when no receipt number repeats among those rows.
C28_Conservation ==
    AnalysedRows =>
        LET df == data[analysis.category_name]
            rows == df.rows
            authoritative == [r \in 1..Len(rows) |->
                                IF analysis.is_money_in THEN rows[r].paidin
                                ELSE rows[r].withdrawn]
            plain == IF "is_charge" \in df.columns
                     THEN {r \in 1..Len(rows) : ~rows[r].is_charge}
                     ELSE 1..Len(rows)
            repeats == \E r1, r2 \in plain :
                          r1 # r2 /\ rows[r1].receiptno = rows[r2].receiptno
            result == analysis.result
        IN /\ result.total_amount + result.total_charges =
                 SumOver(authoritative, 1..Len(rows))
           /\ FrameSum(result.aggregated_frame, "amount") = result.total_amount
           /\ FrameSum(result.aggregated_frame, "count") = Cardinality(plain)
           /\ Cardinality(plain) >= result.transaction_count
           /\ (Cardinality(plain) = result.transaction_count) <=> ~repeats

-----------------------------------------------------------------------------
(* SpecNames: the categorizer built with custom definitions whose names are   *)
(* already taken by a file definition or a special category                   *)

\* custom_categories as handle_user_category accepts them (app.py:439-449
\* compares the new name with the custom names only)
TakenNameCategories ==
    { <<[name |-> "PayBillPayments",
         patterns |-> <<[field |-> "entity",
                         spec |-> [k \in {"contains"} |-> <<W_kplc>>]]>>]>>,
      <<[name |-> "Send Money",
         patterns |-> <<[field |-> "details",
                         spec |-> [k \in {"contains"} |-> <<W_pay_bill>>]]>>]>>,
      <<[name |-> "NoDetails",
         patterns |-> <<[field |-> "type_desc",
                         spec |-> [k \in {"contains"} |-> <<W_charge>>]]>>]>> }

InitNames ==
    /\ \E custom \in TakenNameCategories, K \in SUBSET (1..Len(FileDefinitions)) :
          category_definitions = load_category_definitions(custom, FileSelection(K))
    /\ categories = empty_categories(category_definitions)
    /\ \E n \in 0..MaxTransactions :
          \E rows \in [1..n -> CleanedRows] :
             df_cleaned = [i \in 1..n |-> [rows[i] EXCEPT !.receiptno = Receipt(i)]]
    /\ matched = <<>> /\ cat_returns = <<>>
    /\ SplitIdle /\ MatchIdle /\ CleanIdle /\ AnIdle /\ LaterIdle

SpecNames == InitNames /\ [][NextCat]_vars

\* the records of the list that belong to the transaction row
RecordsOf(list, row) == {n \in 1..Len(list) : list[n].receiptno = row.receiptno}

\* C27: after one run of categorize_transactions on a fresh categorizer each
\* input transaction has at most one record in any one category of the
\* returned mapping.
C27_OncePerCategory ==
    Len(cat_returns) > 0 =>
        \A name \in DOMAIN cat_returns[1] :
            \A i \in 1..Len(df_cleaned) :
                Cardinality(RecordsOf(cat_returns[1][name], df_cleaned[i])) <= 1

-----------------------------------------------------------------------------
(* SpecSession: app.py, the session cache.  One action is one interaction   *)
(* with the page: the script run it triggers from the upload form down to   *)
(* the sidebar, and the rerun the sidebar asks for.  An uploaded file is    *)
(* [name, size, content, password]; a cleaned frame and a categorized       *)
(* mapping are represented by what they were computed from.                 *)

MaxContents == 2

NoneObj == [kind |-> "None"]

PdfFiles ==
    [kind : {"pdf"}, name : {"a.pdf", "b.pdf"}, size : {1, 2},
     content : 1..MaxContents, password : {"", "pw"}]

Passwords == {"", "pw"}

\* app.py:86-104: md5 of "<name>_<size>"
get_pdf_hash(pdf_file) ==
    IF pdf_file = NoneObj THEN NoneObj
    ELSE [kind |-> "md5", name |-> pdf_file.name, size |-> pdf_file.size]

\* app.py:166-187: the cleaned frame of the file's content, or an error when
\* the file cannot be opened with the password
load_and_process_pdf(pdf_file, password) ==
    IF pdf_file.password = "" \/ pdf_file.password = password
    THEN [error |-> FALSE,
          df_cleaned |-> [kind |-> "df", source |-> "pdf", content |-> pdf_file.content]]
    ELSE [error |-> TRUE, df_cleaned |-> NoneObj]

\* app.py:190-211
load_faux_data ==
    IF faux_available
    THEN [error |-> FALSE, df_cleaned |-> [kind |-> "df", source |-> "faux", content |-> 0]]
    ELSE [error |-> TRUE, df_cleaned |-> NoneObj]

\* app.py:214-232: a fresh TransactionCategorizer over the custom categories,
\* run on the frame
categorize_transactions(df, custom_categories) ==
    [kind |-> "categorized", df_cleaned |-> df, custom_categories |-> custom_categories]

\* app.py:56-75
initialize_session_state ==
    [pdf_path |-> NoneObj, pdf_password |-> "", process_clicked |-> FALSE,
     faux_data_clicked |-> FALSE, df_cleaned |-> NoneObj, categorized_data |-> NoneObj,
     current_pdf_hash |-> NoneObj, custom_categories |-> <<>>]

\* app.py:138-152: the upload form submitted with Process
process(ss, pdf, password) ==
    [(IF get_pdf_hash(pdf) # ss.current_pdf_hash
      THEN [ss EXCEPT !.df_cleaned = NoneObj, !.categorized_data = NoneObj,
                      !.current_pdf_hash = get_pdf_hash(pdf)]
      ELSE ss)
        EXCEPT !.pdf_path = pdf, !.pdf_password = password,
               !.process_clicked = TRUE, !.faux_data_clicked = FALSE]

\* app.py:154-160: the upload form submitted with the faux-data button
faux_data(ss) ==
    [ss EXCEPT !.df_cleaned = NoneObj, !.categorized_data = NoneObj,
               !.current_pdf_hash = NoneObj,
               !.faux_data_clicked = TRUE, !.process_clicked = FALSE]

\* app.py:278-314: [stop, ss]
data_loading(ss) ==
    IF ss.process_clicked /\ ss.pdf_path # NoneObj
    THEN IF ss.df_cleaned # NoneObj THEN [stop |-> FALSE, ss |-> ss]
         ELSE IF load_and_process_pdf(ss.pdf_path, ss.pdf_password).error
         THEN [stop |-> TRUE, ss |-> ss]
         ELSE [stop |-> FALSE,
               ss |-> [ss EXCEPT !.df_cleaned =
                          load_and_process_pdf(ss.pdf_path, ss.pdf_password).df_cleaned]]
    ELSE IF ss.faux_data_clicked
    THEN IF ss.df_cleaned # NoneObj THEN [stop |-> FALSE, ss |-> ss]
         ELSE IF load_faux_data.error THEN [stop |-> TRUE, ss |-> ss]
         ELSE [stop |-> FALSE, ss |-> [ss EXCEPT !.df_cleaned = load_faux_data.df_cleaned]]
    ELSE [stop |-> TRUE, ss |-> ss]

\* app.py:328-346
categorization(ss) ==
    IF ss.categorized_data # NoneObj THEN ss
    ELSE [ss EXCEPT !.categorized_data =
             categorize_transactions(ss.df_cleaned, ss.custom_categories)]

\* the script from the data loading to the dashboard: the session state it
\* leaves and what it showed
script_run(ss, event) ==
    IF data_loading(ss).stop
    THEN [session_state |-> data_loading(ss).ss,
          rendered |-> [status |-> "stopped", after |-> event]]
    ELSE [session_state |-> categorization(data_loading(ss).ss),
          rendered |-> [status |-> "shown", after |-> event,
                        df_cleaned |-> categorization(data_loading(ss).ss).df_cleaned,
                        categorized_data |->
                            categorization(data_loading(ss).ss).categorized_data]]

\* what the add-category form can be submitted with
CategoryNameInputs == {"", "Bills", "Rent"}
CategoryTypeInputs == {"", "Utilities"}
MatchValueInputs == {"", "kplc"}

names_of(custom_categories) ==
    {custom_categories[i].name : i \in 1..Len(custom_categories)}

\* handle_user_category appending without clearing the cached mapping
handle_user_category_keeping_cache(ss, cat_name, cat_type, match_values) ==
    IF cat_name = "" \/ cat_type = "" \/ match_values = ""
    THEN [rerun |-> FALSE, ss |-> ss]
    ELSE IF cat_name \in names_of(ss.custom_categories)
    THEN [rerun |-> FALSE, ss |-> ss]
    ELSE [rerun |-> TRUE,
          ss |-> [ss EXCEPT !.custom_categories =
                     Append(@, [name |-> cat_name, type |-> cat_type,
                                match_values |-> match_values])]]

\* app.py:379-457: [rerun, ss]
handle_user_category(ss, cat_name, cat_type, match_values) ==
    IF cat_name = "" \/ cat_type = "" \/ match_values = ""
    THEN [rerun |-> FALSE, ss |-> ss]
    ELSE IF cat_name \in names_of(ss.custom_categories)
    THEN [rerun |-> FALSE, ss |-> ss]
    ELSE [rerun |-> TRUE,
          ss |-> [ss EXCEPT !.custom_categories =
                     Append(@, [name |-> cat_name, type |-> cat_type,
                                match_values |-> match_values]),
                  !.categorized_data = NoneObj]]

\* app.py:540-546
clear_all_custom_categories(ss) ==
    [ss EXCEPT !.custom_categories = <<>>, !.categorized_data = NoneObj]

InitSession ==
    /\ session_state = initialize_session_state
    /\ faux_available \in BOOLEAN
    /\ rendered = [status |-> "stopped", after |-> "start"]
    /\ filter_call = Pending /\ filter_result = Pending
    /\ SplitIdle /\ MatchIdle /\ CleanIdle /\ CatIdle /\ AnIdle /\ EntIdle

\* app.py:138-152, then the script to its end
Process ==
    /\ \E pdf \in PdfFiles \cup {NoneObj}, password \in Passwords :
          /\ session_state' =
                script_run(process(session_state, pdf, password), "process").session_state
          /\ rendered' =
                script_run(process(session_state, pdf, password), "process").rendered
    /\ UNCHANGED <<faux_available, filtVars, entVars,
                   splitVars, matchVars, cleanVars, catVars, anVars>>

\* app.py:154-160, then the script to its end
FauxData ==
    /\ session_state' = script_run(faux_data(session_state), "faux_data").session_state
    /\ rendered' = script_run(faux_data(session_state), "faux_data").rendered
    /\ UNCHANGED <<faux_available, filtVars, entVars,
                   splitVars, matchVars, cleanVars, catVars, anVars>>

\* the add-category form of the sidebar submitted: the script runs to the
\* sidebar with the cached data, handle_user_category acts, and an accepted
\* category makes the script run again (st.rerun, app.py:455)
AddCustomCategory ==
    /\ rendered.status = "shown"
    /\ \E cat_name \in CategoryNameInputs, cat_type \in CategoryTypeInputs,
          match_values \in MatchValueInputs :
          LET first == script_run(session_state, "add_rejected")
              handled == handle_user_category(first.session_state, cat_name, cat_type,
                                              match_values)
          IN  IF first.rendered.status = "stopped" \/ ~handled.rerun
              THEN /\ session_state' = handled.ss
                   /\ rendered' = first.rendered
              ELSE /\ session_state' = script_run(handled.ss, "add_accepted").session_state
                   /\ rendered' = script_run(handled.ss, "add_accepted").rendered
    /\ UNCHANGED <<faux_available, filtVars, entVars,
                   splitVars, matchVars, cleanVars, catVars, anVars>>

\* app.py:540-546: the clear-all button, shown while there are custom
\* categories, and the rerun it asks for
ClearAllCustomCategories ==
    /\ rendered.status = "shown"
    /\ session_state.custom_categories # <<>>
    /\ session_state' =
          script_run(clear_all_custom_categories(
                        script_run(session_state, "clear").session_state),
                     "clear").session_state
    /\ rendered' =
          script_run(clear_all_custom_categories(
                        script_run(session_state, "clear").session_state),
                     "clear").rendered
    /\ UNCHANGED <<faux_available, filtVars, entVars,
                   splitVars, matchVars, cleanVars, catVars, anVars>>

NextSession == Process \/ FauxData \/ AddCustomCategory \/ ClearAllCustomCategories

SpecSession == InitSession /\ [][NextSession]_vars

\* C26: in a session where Process was submitted last, the dashboard shown is
\* computed from the PDF submitted: a PDF different from the one whose data
\* is cached is loaded anew and categorized anew, never served from the
\* data of the PDF before it.
C26_NewPdfInvalidates ==
    (rendered.status = "shown" /\ session_state.process_clicked) =>
        /\ rendered.df_cleaned.source = "pdf"
        /\ rendered.df_cleaned.content = session_state.pdf_path.content
        /\ rendered.categorized_data.df_cleaned = rendered.df_cleaned

\* C30: whenever the dashboard is shown, the categorized data used is the one
\* computed from the current df_cleaned with the current custom_categories
\* list, and a rejected add leaves the session state as it was.
C30_CacheMatchesInputs ==
    [][/\ rendered'.status = "shown" =>
            /\ rendered'.df_cleaned = session_state'.df_cleaned
            /\ rendered'.categorized_data = session_state'.categorized_data
            /\ rendered'.categorized_data =
                  categorize_transactions(session_state'.df_cleaned,
                                          session_state'.custom_categories)
       /\ rendered'.after = "add_rejected" => session_state' = session_state]_vars

\* the dashboard was shown after a second custom category was accepted, with
\* data categorized under both
C30_Witness ==
    /\ rendered.status = "shown"
    /\ rendered.after = "add_accepted"
    /\ Len(session_state.custom_categories) = 2
    /\ rendered.categorized_data.custom_categories = session_state.custom_categories

-----------------------------------------------------------------------------
(* SpecFilter: app.py, filter_categorized_data.  A completion time is the   *)
(* hour count <<d * 24 + hh>> of to_datetime; a date is the day number d.   *)

MaxFilterRows == 2

StatementDays == {1, 2, 3}

\* pd.to_datetime(a date): the midnight the day begins with
date_to_datetime(date) == <<date * 24>>

\* Timestamp.date()
date_of(timestamp) == timestamp[1] \div 24

\* Timestamp.strftime("%B_%Y"); days 1 and 2 of the statement lie in one
\* month and day 3 in the next
strftime_month(timestamp) ==
    IF date_of(timestamp) <= 2 THEN "January_2024" ELSE "February_2024"

\* df.loc[mask] for the date range
loc_date_range(rows, start_date, end_date) ==
    SelectSeq(rows, LAMBDA row :
        /\ row.completiontime[1] >= date_to_datetime(start_date)[1]
        /\ row.completiontime[1] <= date_to_datetime(end_date)[1])

\* df.loc[month_mask]
loc_months(rows, month_filter) ==
    SelectSeq(rows, LAMBDA row :
        strftime_month(row.completiontime) \in SeqRange(month_filter))

\* app.py:234-270; None and an empty tuple or list are <<>>
filter_categorized_data(categorized_data, date_filter, month_filter) ==
    IF date_filter = <<>> /\ month_filter = <<>> THEN categorized_data
    ELSE [category \in DOMAIN categorized_data |->
            IF categorized_data[category] = <<>> THEN categorized_data[category]
            ELSE IF date_filter # <<>> /\ Len(date_filter) = 2
            THEN loc_date_range(categorized_data[category],
                                date_filter[1], date_filter[2])
            ELSE IF month_filter # <<>>
            THEN loc_months(categorized_data[category], month_filter)
            ELSE categorized_data[category]]

\* rows of a categorized mapping: a receipt number and a completion time at
\* midnight or in the morning of a statement day
FilterRows ==
    [receiptno : {<<"R", "1">>},
     completiontime : {<<d * 24 + hh>> : d \in StatementDays, hh \in {0, 8}}]

CategorizedMappings ==
    {[category \in {"Send Money", "uncategorized"} |->
         IF category = "Send Money" THEN rows ELSE other] :
       rows \in UNION {[1..n -> FilterRows] : n \in 0..MaxFilterRows},
       other \in {<<>>, <<[receiptno |-> <<"R", "2">>, completiontime |-> <<2 * 24 + 8>>]>>}}

\* app.py:485-498: the two dates of the date input
DateRanges == {<<s, e>> : s \in StatementDays, e \in StatementDays} \cap
              {r \in StatementDays \X StatementDays : r[1] <= r[2]}

\* app.py:501-520: the months selected
MonthSelections ==
    {<<"January_2024">>, <<"February_2024">>, <<"January_2024", "February_2024">>}

InitFilter ==
    /\ \E categorized_data \in CategorizedMappings :
          \/ filter_call = [status |-> "call", categorized_data |-> categorized_data,
                            date_filter |-> <<>>, month_filter |-> <<>>]
          \/ \E date_filter \in DateRanges :
                filter_call = [status |-> "call", categorized_data |-> categorized_data,
                               date_filter |-> date_filter, month_filter |-> <<>>]
          \/ \E month_filter \in MonthSelections :
                filter_call = [status |-> "call", categorized_data |-> categorized_data,
                               date_filter |-> <<>>, month_filter |-> month_filter]
    /\ filter_result = Pending
    /\ SplitIdle /\ MatchIdle /\ CleanIdle /\ CatIdle /\ AnIdle /\ EntIdle /\ SessIdle

\* app.py:688-692: filter_categorized_data(categorized_data, date_filter, month_filter)
FilterCategorizedData ==
    /\ filter_call.status = "call" /\ filter_result.status = "pending"
    /\ filter_result' =
          [status |-> "done",
           value |-> filter_categorized_data(filter_call.categorized_data,
                                             filter_call.date_filter,
                                             filter_call.month_filter)]
    /\ UNCHANGED <<filter_call, entVars, sessVars,
                   splitVars, matchVars, cleanVars, catVars, anVars>>

NextFilter == FilterCategorizedData

SpecFilter == InitFilter /\ [][NextFilter]_vars

\* the rows of a category whose completion date lies in the range
RowsInRange(rows, date_filter) ==
    SelectSeq(rows, LAMBDA row :
        /\ date_filter[1] <= date_of(row.completiontime)
        /\ date_of(row.completiontime) <= date_filter[2])

\* C29: with a date range filter_categorized_data keeps in every category
\* exactly the rows whose completion date d has start_date <= d <= end_date,
\* whatever the time of day; with no filter it returns the mapping unchanged;
\* in all cases the category keys are kept and each category's rows are a
\* subset of what it had.
C29_DateRangeInclusive ==
    filter_result.status = "done" =>
        LET given == filter_call.categorized_data
            kept == filter_result.value
        IN /\ DOMAIN kept = DOMAIN given
           /\ \A category \in DOMAIN given :
                 SeqRange(kept[category]) \subseteq SeqRange(given[category])
           /\ (filter_call.date_filter = <<>> /\ filter_call.month_filter = <<>>) =>
                 kept = given
           /\ filter_call.date_filter # <<>> =>
                 \A category \in DOMAIN given :
                    kept[category] = RowsInRange(given[category], filter_call.date_filter)

=============================================================================
